---- MODULE Spec2Model ----
(***************************************************************************)
(* A model of ZK-NFS: the namespace tree (nfs/fs/DirectoryNode.py,         *)
(* nfs/fs/FileNode.py), the store that wraps it (nfs/fs/FileSystem.py),    *)
(* the server's request dispatcher (nfs/server.py) and the client's        *)
(* open / write / close handlers with their ZooKeeper lock                 *)
(* (nfs/client.py).                                                        *)
(*                                                                         *)
(* Four specifications share the definitions of the store:                 *)
(*   Spec       client sessions, the server and the lock coordinator;      *)
(*   SpecStore  two threads calling the FileSystem object directly, as     *)
(*              test/test_concurrent_fs.py does;                           *)
(*   SpecTree   one caller making whole calls one after another, as        *)
(*              test/test_fs.py and test/fs/ do;                           *)
(*   SpecServer the server process alone: its main program and the         *)
(*              request loop of each connection.                           *)
(***************************************************************************)
EXTENDS Integers, Sequences, FiniteSets, TLC

\* ------------------------------------------------------------------ bounds

\* Cells of the object heap that holds DirectoryNode and FileNode objects.
MaxNodes == 6

\* Longest scratch buffer a client writes (bytes).
MaxLen == 2

\* Calls the single caller of SpecTree makes.
MaxCalls == 4

\* ---------------------------------------------------------------- universes

\* The root directory's name: FileSystem(root_name="/").
RootName == "/"

\* The heap cell of FileSystem.root.
RootId == 1

\* No object (Python's None) where a heap reference is expected.
NoRef == 0

\* ------------------------------------------------------------ heap objects

\* The empty children dictionary of a new DirectoryNode.
EmptyChildren == [n \in {} |-> NoRef]

\* FileNode.generate_file_id: sha256 of name ++ path.  The hash is modelled
\* by its input, the pair (name, path): names hold no "/" and a path starts
\* with one, so the concatenation determines the pair and two ids are equal
\* exactly when name and path are (SHA-256 collisions aside).
generate_file_id(name, path) == <<name, path>>

\* An unused heap cell.
FreeCell ==
    [type |-> "free", name |-> "", children |-> EmptyChildren,
     path |-> <<>>, fid |-> <<>>, size |-> 0]

\* DirectoryNode.__init__
DirectoryNode(name) ==
    [type |-> "dir", name |-> name, children |-> EmptyChildren,
     path |-> <<>>, fid |-> <<>>, size |-> 0]

\* FileNode.__init__: the id is generated from name and path, size is 0.
FileNode(name, path) ==
    [type |-> "file", name |-> name, children |-> EmptyChildren,
     path |-> path, fid |-> generate_file_id(name, path), size |-> 0]

\* A FileNode by value, as it travels pickled between server and client.
NodeVal(cell) ==
    [name |-> cell.name, path |-> cell.path, fid |-> cell.fid, size |-> cell.size]

\* None where a pickled FileNode is expected.
NoNode == [name |-> "", path |-> <<>>, fid |-> <<>>, size |-> 0]

\* The FileNode object unpickled from a value.
NodeCell(v) ==
    [type |-> "file", name |-> v.name, children |-> EmptyChildren,
     path |-> v.path, fid |-> v.fid, size |-> v.size]

FreeIds(h) == {i \in 1..MaxNodes : h[i].type = "free"}

\* A new object: the lowest unused cell.
Alloc(h) == CHOOSE i \in FreeIds(h) : \A j \in FreeIds(h) : i <= j

RECURSIVE Reach(_, _)
\* The cells reachable from the cells S through children dictionaries.
Reach(h, S) ==
    LET next == S \cup UNION {{h[i].children[n] : n \in DOMAIN h[i].children} : i \in S}
    IN IF next = S THEN S ELSE Reach(h, next)

\* Python's garbage collection: an object neither reachable from the root nor
\* referenced by a running call is gone.
Collect(st, held) ==
    LET live == Reach(st.heap, ({st.root} \cup held) \ {NoRef})
    IN [st EXCEPT !.heap = [i \in 1..MaxNodes |->
                              IF i \in live THEN st.heap[i] ELSE FreeCell]]

\* No snapshot file on disk.
NoSnapshot == [root |-> NoRef, heap |-> <<>>]

\* FileSystem.__init__: an empty root directory and an empty blob folder; the
\* snapshot file that save writes and load reads does not exist yet.
EmptyStore ==
    [root  |-> RootId,
     heap  |-> [i \in 1..MaxNodes |-> IF i = RootId THEN DirectoryNode(RootName) ELSE FreeCell],
     blobs |-> [b \in {} |-> <<>>],
     snapshot |-> NoSnapshot]

\* ------------------------------------------------- DirectoryNode methods
\* Each returns [h: the heap after, id: the object returned, err: the
\* exception raised or ""].

Put(ch, name, id) == [n \in DOMAIN ch \cup {name} |-> IF n = name THEN id ELSE ch[n]]

Drop(ch, name) == [n \in DOMAIN ch \ {name} |-> ch[n]]

\* DirectoryNode.create_directory without its "name not in self.children"
\* test: an existing child is replaced by a new, empty directory.
DirCreateDirectory_replaces(h, d, name) ==
    LET id == Alloc(h)
    IN [h |-> [h EXCEPT ![id] = DirectoryNode(name),
                        ![d].children = Put(h[d].children, name, id)],
        id |-> id, err |-> ""]

\* DirectoryNode.create_directory
DirCreateDirectory(h, d, name) ==
    IF name \notin DOMAIN h[d].children
    THEN LET id == Alloc(h)
         IN [h |-> [h EXCEPT ![id] = DirectoryNode(name),
                             ![d].children = Put(h[d].children, name, id)],
             id |-> id, err |-> ""]
    ELSE [h |-> h, id |-> NoRef, err |-> "Exists"]

\* DirectoryNode.create_file without its "name not in self.children" test: an
\* existing child is replaced.
DirCreateFile_overwrites(h, d, name, path) ==
    LET id == Alloc(h)
    IN [h |-> [h EXCEPT ![id] = FileNode(name, path),
                        ![d].children = Put(h[d].children, name, id)],
        id |-> id, err |-> ""]

\* DirectoryNode.create_file
DirCreateFile(h, d, name, path) ==
    IF name \notin DOMAIN h[d].children
    THEN LET id == Alloc(h)
         IN [h |-> [h EXCEPT ![id] = FileNode(name, path),
                             ![d].children = Put(h[d].children, name, id)],
             id |-> id, err |-> ""]
    ELSE [h |-> h, id |-> NoRef, err |-> "Exists"]

\* DirectoryNode.mutate_file: children[name] becomes the given FileNode
\* object, whatever children[name] was.
DirMutateFile(h, d, name, v) ==
    IF name = "" \/ v = NoNode \/ name \notin DOMAIN h[d].children
    THEN [h |-> h, id |-> NoRef, err |-> "NotFound"]
    ELSE LET id == Alloc(h)
         IN [h |-> [h EXCEPT ![id] = NodeCell(v),
                             ![d].children = Put(h[d].children, name, id)],
             id |-> id, err |-> ""]

\* DirectoryNode.delete_file
DirDeleteFile(h, d, name) ==
    IF name \in DOMAIN h[d].children /\ h[h[d].children[name]].type = "file"
    THEN [h |-> [h EXCEPT ![d].children = Drop(h[d].children, name)],
          id |-> h[d].children[name], err |-> ""]
    ELSE [h |-> h, id |-> NoRef, err |-> "NotFound"]

RECURSIVE CollectFrom(_, _, _)
\* The loop of DirectoryNode._collect_file_ids over the children of node that
\* are still to come (names): a file gives its id, a directory the ids below
\* it.  The model keeps no dictionary order; the list is given in one order.
CollectFrom(h, node, names) ==
    IF names = {} THEN <<>>
    ELSE LET n     == CHOOSE x \in names : TRUE
             child == h[node].children[n]
         IN (IF h[child].type = "file" THEN <<h[child].fid>>
             ELSE CollectFrom(h, child, DOMAIN h[child].children))
            \o CollectFrom(h, node, names \ {n})

\* DirectoryNode._collect_file_ids
_collect_file_ids(h, node) == CollectFrom(h, node, DOMAIN h[node].children)

\* DirectoryNode.delete_directory: an empty directory is removed; a directory
\* with children gives, with recursive, the ids _collect_file_ids finds and is
\* left where it is, and raises EnvironmentError without.  ids: the list
\* returned.
DirDeleteDirectory(h, d, name, recursive) ==
    IF name \in DOMAIN h[d].children /\ h[h[d].children[name]].type = "dir"
    THEN LET node == h[d].children[name]
         IN IF DOMAIN h[node].children = {}
            THEN [h |-> [h EXCEPT ![d].children = Drop(h[d].children, name)],
                  ids |-> <<>>, err |-> ""]
            ELSE IF recursive
            THEN [h |-> h, ids |-> _collect_file_ids(h, node), err |-> ""]
            ELSE [h |-> h, ids |-> <<>>, err |-> "NotEmpty"]
    ELSE [h |-> h, ids |-> <<>>, err |-> "NotFound"]

\* FileNode.rename: the name is set, the id is generated while file_path still
\* is the old path, and then file_path becomes parent / new_name.
FileNodeRename(cell, new_name) ==
    [cell EXCEPT !.name = new_name,
                 !.fid = generate_file_id(new_name, cell.path),
                 !.path = SubSeq(cell.path, 1, Len(cell.path) - 1) \o <<new_name>>]

\* DirectoryNode.rename_file: the FileNode is renamed, stored under new_name
\* and its old key deleted; "return self.children[new_name]" raises KeyError
\* when new_name is the old name, the key just deleted.
DirRenameFile(h, d, old_name, new_name) ==
    IF old_name \in DOMAIN h[d].children /\ h[h[d].children[old_name]].type = "file"
    THEN LET id == h[d].children[old_name]
             h2 == [h EXCEPT ![id] = FileNodeRename(h[id], new_name),
                             ![d].children = Drop(Put(h[d].children, new_name, id), old_name)]
         IN IF new_name = old_name THEN [h |-> h2, id |-> NoRef, err |-> "KeyError"]
            ELSE [h |-> h2, id |-> id, err |-> ""]
    ELSE [h |-> h, id |-> NoRef, err |-> "NotFound"]

RECURSIVE _rename_directory_helper(_, _, _, _, _)
\* DirectoryNode._rename_directory_helper at depth 0, from position i of the
\* order in which node.children yields its children: a file's path gets
\* new_name as its last but one part, and the pair of its id and of the id
\* generate_file_id() computes is listed, while file_id is not assigned; a
\* directory child is handed to self._collect_file_ids with three arguments,
\* which raises TypeError.
_rename_directory_helper(h, node, new_name, order, i) ==
    IF i > Len(order) THEN [h |-> h, ids |-> <<>>, err |-> ""]
    ELSE LET child == h[node].children[order[i]]
         IN IF h[child].type = "file"
            THEN LET parts == [h[child].path EXCEPT ![Len(h[child].path) - 1] = new_name]
                     rest  == _rename_directory_helper(
                                  [h EXCEPT ![child].path = parts], node, new_name, order, i + 1)
                 IN [h   |-> rest.h,
                     ids |-> <<<<h[child].fid, generate_file_id(h[child].name, parts)>>>>
                             \o rest.ids,
                     err |-> rest.err]
            ELSE [h |-> h, ids |-> <<>>, err |-> "TypeError"]

\* DirectoryNode.rename_directory: the directory gets its new name and key,
\* then the helper goes through its children.
DirRenameDirectory(h, d, old_name, new_name, order) ==
    IF old_name \in DOMAIN h[d].children /\ h[h[d].children[old_name]].type = "dir"
    THEN LET id == h[d].children[old_name]
         IN _rename_directory_helper(
                [h EXCEPT ![id].name = new_name,
                          ![d].children = Put(Drop(h[d].children, old_name), new_name, id)],
                id, new_name, order, 1)
    ELSE [h |-> h, ids |-> <<>>, err |-> "NotFound"]

RECURSIVE DirGetFileLoop(_, _, _, _)
\* The loop of DirectoryNode.get_file over path[1:], from position i: it
\* stops at the first part that names a file, descends into any other child,
\* and raises when the part is no child.  NoRef: FileNotFoundError.
DirGetFileLoop(h, cur, path, i) ==
    IF i > Len(path) THEN cur
    ELSE LET part == path[i]
             ch   == h[cur].children
         IN IF part \in DOMAIN ch /\ h[ch[part]].type = "file" THEN cur
            ELSE IF part \in DOMAIN ch THEN DirGetFileLoop(h, ch[part], path, i + 1)
            ELSE NoRef

\* DirectoryNode.get_file: the file named path[-1] in the directory the loop
\* ended in, or NoRef (FileNotFoundError).
DirGetFile(h, d, path) ==
    LET cur  == DirGetFileLoop(h, d, path, 2)
        last == path[Len(path)]
    IN IF cur = NoRef THEN NoRef
       ELSE IF last \in DOMAIN h[cur].children /\ h[h[cur].children[last]].type = "file"
       THEN h[cur].children[last]
       ELSE NoRef

\* ---------------------------------------------------- FileSystem methods
\* A call of a FileSystem method is a frame: the method (op), its arguments
\* (path, data, node), the place it has reached (pc), its local variables
\* (cur: current_dir, i: the loop position in parts, fref: the file object it
\* found), whether it is inside "with self.lock" (locked), and once pc is
\* "done" the exception it raised (err) or the value it returned (rnode,
\* rdata, rn).  A step runs the frame to the next place where another thread
\* can run: the end of a "with self.lock" block, a statement outside the
\* lock, or a blob operation inside it.

\* FileSystem._traverse_directory; NoRef: FileNotFoundError.
Traverse(h, cur, part) ==
    IF h[cur].name = part THEN cur
    ELSE IF part \in DOMAIN h[cur].children /\ h[h[cur].children[part]].type = "dir"
    THEN h[cur].children[part]
    ELSE NoRef

RECURSIVE TraverseFrom(_, _, _, _, _)
\* "for part in parts[a:b]: current_dir = self._traverse_directory(...)" over
\* the positions i..last of parts; NoRef as soon as one part raises.
TraverseFrom(h, cur, parts, i, last) ==
    IF i > last THEN cur
    ELSE LET nxt == Traverse(h, cur, parts[i])
         IN IF nxt = NoRef THEN NoRef ELSE TraverseFrom(h, nxt, parts, i + 1, last)

\* Where each method starts.
FirstPc(op, path) ==
    CASE op = "open"             -> IF Len(path) > 2 THEN "open_loop" ELSE "open_get"
      [] op = "delete"           -> "delete_traverse"
      [] op = "mutate"           -> "mutate_traverse"
      [] op = "create_directory" -> "create_directory"
      [] op = "create_file"      -> "create_file"
      [] op = "delete_file"      -> "delete_file"
      [] op = "get_file"         -> "get_file"
      [] op = "save_file"        -> "save_file"
      [] op = "get_file_node"    -> "get_file_node"
      [] op = "delete_directory" -> "delete_directory"
      [] op = "rename_directory" -> "rename_directory"
      [] op = "rename_file"      -> "rename_file"
      [] op = "save"             -> "save"
      [] op = "load"             -> "load"
      [] op = "DirectoryNode.delete_directory" -> "dir_delete_directory"

\* The frame of a call that has not run yet.
Call(op, path, data, node) ==
    [op |-> op, path |-> path, data |-> data, node |-> node,
     pc |-> FirstPc(op, path), cur |-> RootId, i |-> 2, fref |-> NoRef,
     locked |-> FALSE, err |-> "", rnode |-> NoNode, rdata |-> <<>>, rn |-> 0,
     new_name |-> "", order |-> <<>>, rids |-> <<>>]

\* The call raises e: the lock is released by "with", the locals are gone.
Raise(fr, e) ==
    [fr EXCEPT !.pc = "done", !.err = e, !.locked = FALSE, !.cur = NoRef,
               !.fref = NoRef, !.i = 0]

\* The call returns.
Return(fr, rnode, rdata, rn) ==
    [fr EXCEPT !.pc = "done", !.locked = FALSE, !.cur = NoRef, !.fref = NoRef,
               !.i = 0, !.rnode = rnode, !.rdata = rdata, !.rn = rn]

\* The places at which a call takes self.lock; at every other place it
\* either already holds the lock or runs outside it.
AcquiresLock(pc) ==
    pc \in {"open_loop", "open_mkdir", "open_get", "open_mutate", "create_file",
            "delete_traverse", "delete_tree", "mutate_traverse", "mutate_apply",
            "create_directory", "delete_file", "get_file", "save_file",
            "get_file_node", "delete_directory", "rename_directory", "rename_file",
            "save", "load"}

\* FileSystem.open, one iteration of "for part in parts[1:-1]": the traversal
\* of one part under the lock.
open_loop(st, fr) ==
    LET nxt == Traverse(st.heap, fr.cur, fr.path[fr.i])
    IN IF nxt = NoRef
       THEN [st |-> st, fr |-> [fr EXCEPT !.pc = "open_mkdir"]]
       ELSE [st |-> st,
             fr |-> [fr EXCEPT !.cur = nxt, !.i = fr.i + 1,
                               !.pc = IF fr.i + 1 < Len(fr.path) THEN "open_loop"
                                      ELSE "open_get"]]

\* FileSystem.open, the except branch: self.create_directory(t_path), which
\* resolves parts[:-1] of t_path from the root again and creates the
\* directory there; what it raises leaves open.
open_mkdir(st, fr) ==
    LET parent == TraverseFrom(st.heap, st.root, fr.path, 1, fr.i - 1)
    IN IF parent = NoRef THEN [st |-> st, fr |-> Raise(fr, "NotFound")]
       ELSE LET r == DirCreateDirectory(st.heap, parent, fr.path[fr.i])
            IN IF r.err # "" THEN [st |-> st, fr |-> Raise(fr, r.err)]
               ELSE [st |-> [st EXCEPT !.heap = r.h],
                     fr |-> [fr EXCEPT !.cur = r.id, !.i = fr.i + 1,
                                       !.pc = IF fr.i + 1 < Len(fr.path) THEN "open_loop"
                                              ELSE "open_get"]]

\* What open does with the file object it holds: with a file_node argument it
\* goes on to replace the object, otherwise it returns it.
open_after(st, fr, id) ==
    IF fr.node # NoNode
    THEN [st |-> st, fr |-> [fr EXCEPT !.pc = "open_mutate", !.fref = id, !.locked = FALSE]]
    ELSE [st |-> st, fr |-> Return(fr, NodeVal(st.heap[id]), <<>>, 0)]

\* FileSystem.open: "file_to_open = current_dir.children.get(parts[-1])" under
\* the lock; a missing child sends open to self.create_file(file_path).
open_get(st, fr) ==
    LET last == fr.path[Len(fr.path)]
        ch   == st.heap[fr.cur].children
    IN IF last \in DOMAIN ch
       THEN open_after(st, fr, ch[last])
       ELSE [st |-> st, fr |-> [fr EXCEPT !.pc = "create_file", !.data = <<>>]]

\* FileSystem.open: "current_dir.mutate_file(parts[-1], file_node)" under the
\* lock, when open was given a file_node.
open_mutate(st, fr) ==
    LET r == DirMutateFile(st.heap, fr.cur, fr.path[Len(fr.path)], fr.node)
    IN IF r.err # "" THEN [st |-> st, fr |-> Raise(fr, r.err)]
       ELSE [st |-> [st EXCEPT !.heap = r.h], fr |-> Return(fr, fr.node, <<>>, 0)]

\* FileSystem.create_file up to the blob: the lock is taken, parts[1:-1] are
\* traversed from the root and the FileNode is created in the directory
\* reached.
create_file(st, fr) ==
    LET dir == TraverseFrom(st.heap, st.root, fr.path, 2, Len(fr.path) - 1)
    IN IF dir = NoRef THEN [st |-> st, fr |-> Raise(fr, "NotFound")]
       ELSE LET r == DirCreateFile(st.heap, dir, fr.path[Len(fr.path)], fr.path)
            IN IF r.err # "" THEN [st |-> st, fr |-> Raise(fr, r.err)]
               ELSE [st |-> [st EXCEPT !.heap = r.h],
                     fr |-> [fr EXCEPT !.pc = "create_file_blob", !.fref = r.id,
                                       !.locked = TRUE]]

\* FileSystem.create_file, the blob: the content is written under the file's
\* id, the node's size is set to the count written, the lock is released.
create_file_blob(st, fr) ==
    LET fid == st.heap[fr.fref].fid
        st2 == [st EXCEPT !.heap[fr.fref].size = Len(fr.data),
                          !.blobs = Put(st.blobs, fid, fr.data)]
    IN IF fr.op = "open"
       THEN open_after(st2, [fr EXCEPT !.locked = FALSE], fr.fref)
       ELSE [st |-> st2, fr |-> Return(fr, NodeVal(st2.heap[fr.fref]), <<>>, 0)]

\* FileSystem.create_directory: one block under the lock; parts[:-1], the
\* root's own name included, are traversed from the root.
create_directory(st, fr) ==
    LET dir == TraverseFrom(st.heap, st.root, fr.path, 1, Len(fr.path) - 1)
    IN IF dir = NoRef THEN [st |-> st, fr |-> Raise(fr, "NotFound")]
       ELSE LET r == DirCreateDirectory(st.heap, dir, fr.path[Len(fr.path)])
            IN IF r.err # "" THEN [st |-> st, fr |-> Raise(fr, r.err)]
               ELSE [st |-> [st EXCEPT !.heap = r.h], fr |-> Return(fr, NoNode, <<>>, 0)]

\* FileSystem.delete: the traversal of parts[1:-1] under the lock.
delete_traverse(st, fr) ==
    LET dir == TraverseFrom(st.heap, fr.cur, fr.path, 2, Len(fr.path) - 1)
    IN IF dir = NoRef THEN [st |-> st, fr |-> Raise(fr, "NotFound")]
       ELSE [st |-> st, fr |-> [fr EXCEPT !.cur = dir, !.pc = "delete_get"]]

\* FileSystem.delete, outside the lock: "file_to_delete =
\* current_dir.children.get(parts[-1])" and the test that it is a FileNode.
delete_get(st, fr) ==
    LET last == fr.path[Len(fr.path)]
        ch   == st.heap[fr.cur].children
    IN IF last \in DOMAIN ch /\ st.heap[ch[last]].type = "file"
       THEN [st |-> st, fr |-> [fr EXCEPT !.fref = ch[last], !.pc = "delete_exists"]]
       ELSE [st |-> st, fr |-> Raise(fr, "NotFound")]

\* FileSystem.delete, outside the lock: "if file_path_to_delete.exists()",
\* with the id the file object has now.
delete_exists(st, fr) ==
    IF st.heap[fr.fref].fid \in DOMAIN st.blobs
    THEN [st |-> st, fr |-> [fr EXCEPT !.pc = "delete_remove"]]
    ELSE [st |-> st, fr |-> [fr EXCEPT !.pc = "delete_tree"]]

\* FileSystem.delete, outside the lock: os.remove, which raises
\* FileNotFoundError when the blob is gone by now.
delete_remove(st, fr) ==
    LET fid == st.heap[fr.fref].fid
    IN IF fid \in DOMAIN st.blobs
       THEN [st |-> [st EXCEPT !.blobs = Drop(st.blobs, fid)],
             fr |-> [fr EXCEPT !.pc = "delete_tree"]]
       ELSE [st |-> st, fr |-> Raise(fr, "NotFound")]

\* FileSystem.delete: "return current_dir.delete_file(parts[-1])" under the
\* lock.
delete_tree(st, fr) ==
    LET r == DirDeleteFile(st.heap, fr.cur, fr.path[Len(fr.path)])
    IN IF r.err # "" THEN [st |-> st, fr |-> Raise(fr, r.err)]
       ELSE [st |-> [st EXCEPT !.heap = r.h],
             fr |-> Return(fr, NodeVal(st.heap[r.id]), <<>>, 0)]

\* FileSystem.mutate: the traversal of parts[1:-1] under the lock.
mutate_traverse(st, fr) ==
    LET dir == TraverseFrom(st.heap, fr.cur, fr.path, 2, Len(fr.path) - 1)
    IN IF dir = NoRef THEN [st |-> st, fr |-> Raise(fr, "NotFound")]
       ELSE [st |-> st, fr |-> [fr EXCEPT !.cur = dir, !.pc = "mutate_apply"]]

\* FileSystem.mutate, the second block under the lock: the child must be a
\* FileNode, and is replaced by new_file_node.
mutate_apply(st, fr) ==
    LET last == fr.path[Len(fr.path)]
        ch   == st.heap[fr.cur].children
    IN IF ~(last \in DOMAIN ch /\ st.heap[ch[last]].type = "file")
       THEN [st |-> st, fr |-> Raise(fr, "NotFound")]
       ELSE LET r == DirMutateFile(st.heap, fr.cur, last, fr.node)
            IN IF r.err # "" THEN [st |-> st, fr |-> Raise(fr, r.err)]
               ELSE [st |-> [st EXCEPT !.heap = r.h], fr |-> Return(fr, fr.node, <<>>, 0)]

\* FileSystem.delete_file that returns quietly, instead of raising
\* FileNotFoundError, when the path names no file.
delete_file_quiet(st, fr) ==
    LET dir  == TraverseFrom(st.heap, st.root, fr.path, 1, Len(fr.path) - 1)
        last == fr.path[Len(fr.path)]
    IN IF dir = NoRef THEN [st |-> st, fr |-> Raise(fr, "NotFound")]
       ELSE LET ch == st.heap[dir].children
            IN IF ~(last \in DOMAIN ch /\ st.heap[ch[last]].type = "file")
               THEN [st |-> st, fr |-> Return(fr, NoNode, <<>>, 0)]
               ELSE [st |-> st,
                     fr |-> [fr EXCEPT !.cur = dir, !.fref = ch[last], !.locked = TRUE,
                                       !.pc = IF st.heap[ch[last]].fid \in DOMAIN st.blobs
                                              THEN "delete_file_remove"
                                              ELSE "delete_file_tree"]]

\* FileSystem.delete_file up to the blob: the lock is taken, parts[:-1] are
\* traversed from the root, the child must be a FileNode, and
\* "file_path.exists()" is asked.
delete_file(st, fr) ==
    LET dir  == TraverseFrom(st.heap, st.root, fr.path, 1, Len(fr.path) - 1)
        last == fr.path[Len(fr.path)]
    IN IF dir = NoRef THEN [st |-> st, fr |-> Raise(fr, "NotFound")]
       ELSE LET ch == st.heap[dir].children
            IN IF ~(last \in DOMAIN ch /\ st.heap[ch[last]].type = "file")
               THEN [st |-> st, fr |-> Raise(fr, "NotFound")]
               ELSE [st |-> st,
                     fr |-> [fr EXCEPT !.cur = dir, !.fref = ch[last], !.locked = TRUE,
                                       !.pc = IF st.heap[ch[last]].fid \in DOMAIN st.blobs
                                              THEN "delete_file_remove"
                                              ELSE "delete_file_tree"]]

\* FileSystem.delete_file, still under the lock: os.remove of the blob, which
\* raises FileNotFoundError when the blob is gone by now.
delete_file_remove(st, fr) ==
    LET fid == st.heap[fr.fref].fid
    IN IF fid \in DOMAIN st.blobs
       THEN [st |-> [st EXCEPT !.blobs = Drop(st.blobs, fid)],
             fr |-> [fr EXCEPT !.pc = "delete_file_tree"]]
       ELSE [st |-> st, fr |-> Raise(fr, "NotFound")]

\* FileSystem.delete_file, the end of the block:
\* "current_dir.delete_file(parts[-1])"; the lock is released.
delete_file_tree(st, fr) ==
    LET r == DirDeleteFile(st.heap, fr.cur, fr.path[Len(fr.path)])
    IN IF r.err # "" THEN [st |-> st, fr |-> Raise(fr, r.err)]
       ELSE [st |-> [st EXCEPT !.heap = r.h], fr |-> Return(fr, NoNode, <<>>, 0)]

\* FileSystem.get_file up to the blob: the lock is taken and
\* self.root.get_file(parts) resolves the path.
get_file(st, fr) ==
    LET id == DirGetFile(st.heap, st.root, fr.path)
    IN IF id = NoRef THEN [st |-> st, fr |-> Raise(fr, "NotFound")]
       ELSE [st |-> st, fr |-> [fr EXCEPT !.fref = id, !.locked = TRUE,
                                          !.pc = "get_file_read"]]

\* FileSystem.get_file, the blob: its bytes are read and returned, or
\* FileNotFoundError when there is no blob under the id.
get_file_read(st, fr) ==
    LET fid == st.heap[fr.fref].fid
    IN IF fid \in DOMAIN st.blobs
       THEN [st |-> st, fr |-> Return(fr, NoNode, st.blobs[fid], 0)]
       ELSE [st |-> st, fr |-> Raise(fr, "NotFound")]

\* FileSystem.save_file up to the blob: the lock is taken and
\* self.root.get_file(parts) resolves the path.
save_file(st, fr) ==
    LET id == DirGetFile(st.heap, st.root, fr.path)
    IN IF id = NoRef THEN [st |-> st, fr |-> Raise(fr, "NotFound")]
       ELSE [st |-> st, fr |-> [fr EXCEPT !.fref = id, !.locked = TRUE,
                                          !.pc = "save_file_write"]]

\* FileSystem.save_file, the blob: the data replace the blob under the file's
\* id and the count written is returned.
save_file_write(st, fr) ==
    LET fid == st.heap[fr.fref].fid
    IN [st |-> [st EXCEPT !.blobs = Put(st.blobs, fid, fr.data)],
        fr |-> Return(fr, NoNode, <<>>, Len(fr.data))]

\* FileSystem.get_file_node: one block under the lock, self.root.get_file(parts).
get_file_node(st, fr) ==
    LET id == DirGetFile(st.heap, st.root, fr.path)
    IN IF id = NoRef THEN [st |-> st, fr |-> Raise(fr, "NotFound")]
       ELSE [st |-> st, fr |-> Return(fr, NodeVal(st.heap[id]), <<>>, 0)]

\* FileSystem.delete_directory without its test for children: the directory is
\* taken out of its parent whatever it holds.
delete_directory_forced(st, fr) ==
    LET dir  == TraverseFrom(st.heap, st.root, fr.path, 2, Len(fr.path) - 1)
        last == fr.path[Len(fr.path)]
    IN IF dir = NoRef \/ last \notin DOMAIN st.heap[dir].children
       THEN [st |-> st, fr |-> Raise(fr, "NotFound")]
       ELSE [st |-> [st EXCEPT !.heap[dir].children = Drop(st.heap[dir].children, last)],
             fr |-> Return(fr, NoNode, <<>>, 0)]

\* FileSystem.delete_directory: one block under the lock.  parts[1:-1] are
\* traversed; "current_dir.children[parts[-1]].children" raises KeyError when
\* the name is no child and AttributeError when the child is a FileNode; a
\* directory with children raises EnvironmentError; an empty one is deleted,
\* with no recursive argument.
delete_directory(st, fr) ==
    LET dir  == TraverseFrom(st.heap, st.root, fr.path, 2, Len(fr.path) - 1)
        last == fr.path[Len(fr.path)]
    IN IF dir = NoRef THEN [st |-> st, fr |-> Raise(fr, "NotFound")]
       ELSE IF last \notin DOMAIN st.heap[dir].children
       THEN [st |-> st, fr |-> Raise(fr, "KeyError")]
       ELSE IF st.heap[st.heap[dir].children[last]].type # "dir"
       THEN [st |-> st, fr |-> Raise(fr, "AttributeError")]
       ELSE IF DOMAIN st.heap[st.heap[dir].children[last]].children # {}
       THEN [st |-> st, fr |-> Raise(fr, "NotEmpty")]
       ELSE LET r == DirDeleteDirectory(st.heap, dir, last, FALSE)
            IN IF r.err # "" THEN [st |-> st, fr |-> Raise(fr, r.err)]
               ELSE [st |-> [st EXCEPT !.heap = r.h], fr |-> Return(fr, NoNode, <<>>, 0)]

\* FileSystem.rename_directory: one block under the lock.  parts[:-1] are
\* traversed and the directory renamed; the pairs DirectoryNode.rename_directory
\* returns are dropped, and what it raises leaves the tree as far as it got.
rename_directory(st, fr) ==
    LET dir == TraverseFrom(st.heap, st.root, fr.path, 1, Len(fr.path) - 1)
    IN IF dir = NoRef THEN [st |-> st, fr |-> Raise(fr, "NotFound")]
       ELSE LET r == DirRenameDirectory(st.heap, dir, fr.path[Len(fr.path)],
                                        fr.new_name, fr.order)
            IN [st |-> [st EXCEPT !.heap = r.h],
                fr |-> IF r.err # "" THEN Raise(fr, r.err) ELSE Return(fr, NoNode, <<>>, 0)]

\* FileSystem.rename_file: one block under the lock.  parts[:-1] are traversed;
\* the old id is read from current_dir.get_file(parts[1:]), which looks for
\* parts[2:] below current_dir; the file is renamed in the tree and then
\* os.rename moves the blob from the old id to the new one.
rename_file(st, fr) ==
    LET dir == TraverseFrom(st.heap, st.root, fr.path, 1, Len(fr.path) - 1)
    IN IF dir = NoRef THEN [st |-> st, fr |-> Raise(fr, "NotFound")]
       ELSE LET old == DirGetFile(st.heap, dir, Tail(fr.path))
            IN IF old = NoRef THEN [st |-> st, fr |-> Raise(fr, "NotFound")]
               ELSE LET old_id == st.heap[old].fid
                        r      == DirRenameFile(st.heap, dir, fr.path[Len(fr.path)],
                                                fr.new_name)
                    IN IF r.err # ""
                       THEN [st |-> [st EXCEPT !.heap = r.h], fr |-> Raise(fr, r.err)]
                       ELSE IF old_id \notin DOMAIN st.blobs
                       THEN [st |-> [st EXCEPT !.heap = r.h], fr |-> Raise(fr, "NotFound")]
                       ELSE [st |-> [st EXCEPT !.heap = r.h,
                                               !.blobs = Put(Drop(st.blobs, old_id),
                                                             r.h[r.id].fid,
                                                             st.blobs[old_id])],
                             fr |-> Return(fr, NoNode, <<>>, 0)]

\* FileSystem._serialize of the tree below root: every directory with its name
\* and children, every file with its name, size, file_path and file_id.  The
\* document's nesting is kept as the references between the cells.
_serialize(h, root) ==
    [root |-> root,
     heap |-> [i \in 1..MaxNodes |-> IF i \in Reach(h, {root}) THEN h[i] ELSE FreeCell]]

\* FileSystem._deserialize: a directory is DirectoryNode(name) with its
\* children deserialized; a file is FileNode(name, Path(file_path)), a new
\* node that takes neither size nor file_id from the document.
_deserialize(data) ==
    [i \in 1..MaxNodes |->
        IF data.heap[i].type = "dir"
        THEN [DirectoryNode(data.heap[i].name) EXCEPT !.children = data.heap[i].children]
        ELSE IF data.heap[i].type = "file"
        THEN FileNode(data.heap[i].name, data.heap[i].path)
        ELSE FreeCell]

\* FileSystem.save: the serialized tree is written to the snapshot file.
save(st, fr) ==
    [st |-> [st EXCEPT !.snapshot = _serialize(st.heap, st.root)],
     fr |-> Return(fr, NoNode, <<>>, 0)]

\* FileSystem.load: self.root becomes the deserialized snapshot; open raises
\* FileNotFoundError when there is no snapshot file.
load(st, fr) ==
    IF st.snapshot = NoSnapshot THEN [st |-> st, fr |-> Raise(fr, "NotFound")]
    ELSE [st |-> [st EXCEPT !.root = st.snapshot.root, !.heap = _deserialize(st.snapshot)],
          fr |-> Return(fr, NoNode, <<>>, 0)]

RECURSIVE DirAt(_, _, _, _)
\* The object a caller reaches from directory cur through the children
\* dictionaries along parts[i..]: root.children[a].children[b]...
DirAt(h, cur, parts, i) ==
    IF cur = NoRef \/ i > Len(parts) THEN cur
    ELSE IF h[cur].type = "dir" /\ parts[i] \in DOMAIN h[cur].children
    THEN DirAt(h, h[cur].children[parts[i]], parts, i + 1)
    ELSE NoRef

\* A caller that holds the tree calls DirectoryNode.delete_directory(name,
\* recursive=True) on the directory above path, as the unit tests call the
\* nodes' methods; FileSystem's lock is not taken.  rids: the list returned.
dir_delete_directory(st, fr) ==
    LET d == DirAt(st.heap, st.root, SubSeq(fr.path, 1, Len(fr.path) - 1), 2)
    IN IF d = NoRef \/ st.heap[d].type # "dir"
       THEN [st |-> st, fr |-> Raise(fr, "AttributeError")]
       ELSE LET r == DirDeleteDirectory(st.heap, d, fr.path[Len(fr.path)], TRUE)
            IN IF r.err # "" THEN [st |-> st, fr |-> Raise(fr, r.err)]
               ELSE [st |-> [st EXCEPT !.heap = r.h],
                     fr |-> [Return(fr, NoNode, <<>>, 0) EXCEPT !.rids = r.ids]]

\* One step of a call: the block at its pc.
Step(st, fr) ==
    CASE fr.pc = "open_loop"          -> open_loop(st, fr)
      [] fr.pc = "open_mkdir"         -> open_mkdir(st, fr)
      [] fr.pc = "open_get"           -> open_get(st, fr)
      [] fr.pc = "open_mutate"        -> open_mutate(st, fr)
      [] fr.pc = "create_file"        -> create_file(st, fr)
      [] fr.pc = "create_file_blob"   -> create_file_blob(st, fr)
      [] fr.pc = "create_directory"   -> create_directory(st, fr)
      [] fr.pc = "delete_traverse"    -> delete_traverse(st, fr)
      [] fr.pc = "delete_get"         -> delete_get(st, fr)
      [] fr.pc = "delete_exists"      -> delete_exists(st, fr)
      [] fr.pc = "delete_remove"      -> delete_remove(st, fr)
      [] fr.pc = "delete_tree"        -> delete_tree(st, fr)
      [] fr.pc = "mutate_traverse"    -> mutate_traverse(st, fr)
      [] fr.pc = "mutate_apply"       -> mutate_apply(st, fr)
      [] fr.pc = "delete_file"        -> delete_file(st, fr)
      [] fr.pc = "delete_file_remove" -> delete_file_remove(st, fr)
      [] fr.pc = "delete_file_tree"   -> delete_file_tree(st, fr)
      [] fr.pc = "get_file"           -> get_file(st, fr)
      [] fr.pc = "get_file_read"      -> get_file_read(st, fr)
      [] fr.pc = "save_file"          -> save_file(st, fr)
      [] fr.pc = "save_file_write"    -> save_file_write(st, fr)
      [] fr.pc = "get_file_node"      -> get_file_node(st, fr)
      [] fr.pc = "delete_directory"   -> delete_directory(st, fr)
      [] fr.pc = "rename_directory"   -> rename_directory(st, fr)
      [] fr.pc = "rename_file"        -> rename_file(st, fr)
      [] fr.pc = "save"               -> save(st, fr)
      [] fr.pc = "load"               -> load(st, fr)
      [] fr.pc = "dir_delete_directory" -> dir_delete_directory(st, fr)

RECURSIVE Run(_, _)
\* A call run from its frame to its end with no other thread in between.
Run(st, fr) ==
    IF fr.pc = "done" THEN [st |-> st, fr |-> fr]
    ELSE LET r == Step(st, fr) IN Run(r.st, r.fr)

\* A whole call made by a single caller, and the objects it left behind
\* collected.
Invoke(st, op, path, data, node) ==
    LET r == Run(st, Call(op, path, data, node))
    IN [st |-> Collect(r.st, {}), fr |-> r.fr]

\* A rename call: the method, the old path, the new name, and the order in
\* which the renamed directory's children dictionary yields its children.
CallRename(op, path, new_name, order) ==
    [Call(op, path, <<>>, NoNode) EXCEPT !.new_name = new_name, !.order = order]

\* A whole call made from its frame by a single caller.
InvokeCall(st, fr) ==
    LET r == Run(st, fr)
    IN [st |-> Collect(r.st, {}), fr |-> r.fr]

\* ------------------------------------------------------------------ state

VARIABLES
    store,              \* the server's FileSystem: root, object heap, blob folder
    thr,                \* SpecStore: each thread's call of a FileSystem method
    store0,             \* SpecStore: the store the threads started from
    pc,                 \* Spec: where each client's command handler stands
    current_file_node,  \* Spec: NFSClient.current_file_node
    current_zk_lock,    \* Spec: NFSClient.current_zk_lock, by the lock's path
    temp_file,          \* Spec: NFSClient.temp_file and the cached file's bytes
    local,              \* Spec: the running handler's local variables
    queue,              \* Spec: the coordinator's contenders of each lock path
    acquired,           \* Spec: the (client, path) locks acquired and not released
    committed           \* Spec: the clients whose close ran to its end after a write

vars == <<store, thr, store0, pc, current_file_node, current_zk_lock, temp_file,
          local, queue, acquired, committed>>

sessionVars == <<pc, current_file_node, current_zk_lock, temp_file, local, queue,
                 acquired, committed>>

\* ------------------------------------------ SpecStore: threads on the store

Threads == {"T1", "T2"}

PathD == <<"/", "d">>

PathDF == <<"/", "d", "f">>

PathDEF == <<"/", "d", "e", "f">>

\* The FileNode a caller hands to mutate or open: the entry of /d/f edited to
\* size 1.
EditedDF == [NodeVal(FileNode("f", PathDF)) EXCEPT !.size = 1]

\* The stores the threads start from, each built by the calls the tests'
\* setUp makes: an empty store, one with /d, one with /d/f holding "X".
StoreD == Invoke(EmptyStore, "create_directory", PathD, <<>>, NoNode).st

StoreDF == Invoke(StoreD, "create_file", PathDF, <<"X">>, NoNode).st

InitStores == {EmptyStore, StoreD, StoreDF}

\* The calls a thread may make.
StoreCalls ==
    {Call("open", p, <<>>, n) : p \in {PathDF, PathDEF}, n \in {NoNode}}
    \cup {Call("open", PathDF, <<>>, EditedDF)}
    \cup {Call("delete", PathDF, <<>>, NoNode)}
    \cup {Call("mutate", PathDF, <<>>, EditedDF)}
    \cup {Call("create_directory", PathD, <<>>, NoNode)}
    \cup {Call("create_file", PathDF, d, NoNode) : d \in {<<"A">>, <<"B">>}}
    \cup {Call("delete_file", PathDF, <<>>, NoNode)}
    \cup {Call("get_file", PathDF, <<>>, NoNode)}
    \cup {Call("save_file", PathDF, <<"A">>, NoNode)}

\* The objects the running calls refer to.
Held(frames) == UNION {{frames[t].cur, frames[t].fref} : t \in DOMAIN frames}

\* Thread t stands at the block named p and may run it: a block that takes
\* self.lock waits while another thread is inside the lock.
ThreadAt(t, p) ==
    /\ thr[t].pc = p
    /\ AcquiresLock(p) => \A u \in Threads \ {t} : ~thr[u].locked

\* Thread t has run a block with result r.
ThreadDid(t, r) ==
    LET frames == [thr EXCEPT ![t] = r.fr]
    IN /\ thr' = frames
       /\ store' = Collect(r.st, Held(frames))
       /\ UNCHANGED <<store0, sessionVars>>

T_open_loop(t) == ThreadAt(t, "open_loop") /\ ThreadDid(t, open_loop(store, thr[t]))

T_open_mkdir(t) == ThreadAt(t, "open_mkdir") /\ ThreadDid(t, open_mkdir(store, thr[t]))

T_open_get(t) == ThreadAt(t, "open_get") /\ ThreadDid(t, open_get(store, thr[t]))

T_open_mutate(t) == ThreadAt(t, "open_mutate") /\ ThreadDid(t, open_mutate(store, thr[t]))

T_create_file(t) == ThreadAt(t, "create_file") /\ ThreadDid(t, create_file(store, thr[t]))

T_create_file_blob(t) ==
    ThreadAt(t, "create_file_blob") /\ ThreadDid(t, create_file_blob(store, thr[t]))

T_create_directory(t) ==
    ThreadAt(t, "create_directory") /\ ThreadDid(t, create_directory(store, thr[t]))

T_delete_traverse(t) ==
    ThreadAt(t, "delete_traverse") /\ ThreadDid(t, delete_traverse(store, thr[t]))

T_delete_get(t) == ThreadAt(t, "delete_get") /\ ThreadDid(t, delete_get(store, thr[t]))

T_delete_exists(t) ==
    ThreadAt(t, "delete_exists") /\ ThreadDid(t, delete_exists(store, thr[t]))

T_delete_remove(t) ==
    ThreadAt(t, "delete_remove") /\ ThreadDid(t, delete_remove(store, thr[t]))

T_delete_tree(t) == ThreadAt(t, "delete_tree") /\ ThreadDid(t, delete_tree(store, thr[t]))

T_mutate_traverse(t) ==
    ThreadAt(t, "mutate_traverse") /\ ThreadDid(t, mutate_traverse(store, thr[t]))

T_mutate_apply(t) ==
    ThreadAt(t, "mutate_apply") /\ ThreadDid(t, mutate_apply(store, thr[t]))

T_delete_file(t) == ThreadAt(t, "delete_file") /\ ThreadDid(t, delete_file(store, thr[t]))

T_delete_file_remove(t) ==
    ThreadAt(t, "delete_file_remove") /\ ThreadDid(t, delete_file_remove(store, thr[t]))

T_delete_file_tree(t) ==
    ThreadAt(t, "delete_file_tree") /\ ThreadDid(t, delete_file_tree(store, thr[t]))

T_get_file(t) == ThreadAt(t, "get_file") /\ ThreadDid(t, get_file(store, thr[t]))

T_get_file_read(t) ==
    ThreadAt(t, "get_file_read") /\ ThreadDid(t, get_file_read(store, thr[t]))

T_save_file(t) == ThreadAt(t, "save_file") /\ ThreadDid(t, save_file(store, thr[t]))

T_save_file_write(t) ==
    ThreadAt(t, "save_file_write") /\ ThreadDid(t, save_file_write(store, thr[t]))

\* The session variables while no client runs.
NoSessions ==
    /\ pc = <<>>
    /\ current_file_node = <<>>
    /\ current_zk_lock = <<>>
    /\ temp_file = <<>>
    /\ local = <<>>
    /\ queue = <<>>
    /\ acquired = {}
    /\ committed = {}

InitStore ==
    /\ store \in InitStores
    /\ store0 = store
    /\ thr \in [Threads -> StoreCalls]
    /\ NoSessions

NextStore ==
    \E t \in Threads :
        \/ T_open_loop(t)
        \/ T_open_mkdir(t)
        \/ T_open_get(t)
        \/ T_open_mutate(t)
        \/ T_create_file(t)
        \/ T_create_file_blob(t)
        \/ T_create_directory(t)
        \/ T_delete_traverse(t)
        \/ T_delete_get(t)
        \/ T_delete_exists(t)
        \/ T_delete_remove(t)
        \/ T_delete_tree(t)
        \/ T_mutate_traverse(t)
        \/ T_mutate_apply(t)
        \/ T_delete_file(t)
        \/ T_delete_file_remove(t)
        \/ T_delete_file_tree(t)
        \/ T_get_file(t)
        \/ T_get_file_read(t)
        \/ T_save_file(t)
        \/ T_save_file_write(t)

SpecStore == InitStore /\ [][NextStore]_vars

\* ------------------------------------------------ the server's dispatcher
\* NFSServer.handle_nfs runs on one event loop: from the request it received
\* to the responses it sent, a handler's calls on the FileSystem run with no
\* other request in between.  Each handler gives the store after and the
\* messages it sent, in order.

\* A JSON response.
Response(ok, node, data, n) ==
    [kind |-> "json", OK |-> ok, node |-> node, data |-> data, n |-> n]

\* The text the outer "except Exception" sends: f"Error: {e}", no JSON.
ErrorText == [kind |-> "text", OK |-> FALSE, node |-> NoNode, data |-> <<>>, n |-> 0]

\* What the open and the close branch send once the store call r is over: the
\* except branch sends OK=False and does not return, so the OK=True response,
\* with no file_node, is sent after it as well.
Answered(r) ==
    [st   |-> r.st,
     sent |-> IF r.fr.err # ""
              THEN <<Response(FALSE, NoNode, <<>>, 0), Response(TRUE, NoNode, <<>>, 0)>>
              ELSE <<Response(TRUE, r.fr.rnode, <<>>, 0)>>]

\* action == "open": self.fs.open(file_path).
server_open(st, path) == Answered(Invoke(st, "open", path, <<>>, NoNode))

\* action == "close": self.fs.mutate(file_path, closeRequest.file_node).
server_close(st, node) == Answered(Invoke(st, "mutate", node.path, <<>>, node))

\* What the read branch sends once get_file is over: the request's file_node
\* with the bytes, or neither when get_file raised.
ReadAnswered(r, node) ==
    [st   |-> r.st,
     sent |-> IF r.fr.err # ""
              THEN <<Response(FALSE, NoNode, <<>>, 0)>>
              ELSE <<Response(TRUE, node, r.fr.rdata, 0)>>]

\* action == "read": self.fs.get_file(file_path).
server_read(st, node) == ReadAnswered(Invoke(st, "get_file", node.path, <<>>, NoNode), node)

\* What the write branch sends once save_file is over: OK=False when it
\* raised; the error text of the outer except when "assert bytes_written ==
\* file_node.size" fails; else OK=True.
WriteAnswered(r, node) ==
    [st   |-> r.st,
     sent |-> IF r.fr.err # "" THEN <<Response(FALSE, NoNode, <<>>, 0)>>
              ELSE IF r.fr.rn # node.size THEN <<ErrorText>>
              ELSE <<Response(TRUE, node, <<>>, r.fr.rn)>>]

\* action == "write": self.fs.save_file(file_path, data).
server_write(st, node, data) ==
    WriteAnswered(Invoke(st, "save_file", node.path, data, NoNode), node)

\* NFSClient.websocket_comm: one connection per request, one recv: the client
\* sees the first message the server sent.
websocket_comm(sent) == Head(sent)

\* --------------------------------------------------- Spec: client sessions

Clients == {"A", "B"}

PathF == <<"/", "f">>

PathDDF == <<"/", "d", "d", "f">>

\* The paths a client opens: a file in the root, and a path whose second
\* part repeats the first.
ClientPaths == {PathF, PathDDF}

\* The paths the client's user opens: A works on both, B on the root's file.
Opens(c) == IF c = "A" THEN ClientPaths ELSE {PathF}

\* current_zk_lock = None.
NoLock == <<>>

\* temp_file = None.
NoTemp == [fid |-> <<>>, data |-> <<>>]

\* A handler's locals when no handler runs.
NoLocal == [node |-> NoNode, data |-> <<>>]

\* NFSClient.has_file_open
has_file_open(c) ==
    ~(current_file_node[c] = NoNode \/ current_zk_lock[c] = NoLock \/ temp_file[c].fid = <<>>)

\* The coordinator (the ZooKeeper lock recipe behind kazoo's Lock): the
\* contender at the head of the path's queue is granted the lock.  A client
\* that already has an acquired lock on the path stands before its own new
\* contender, which is then never granted: the Lock is not re-entrant.
Granted(c, p) == queue[p] # <<>> /\ Head(queue[p]) = c /\ <<c, p>> \notin acquired

\* The queue without the first contender of c: Lock.release.
RECURSIVE Released(_, _)
Released(q, c) ==
    IF q = <<>> THEN <<>>
    ELSE IF Head(q) = c THEN Tail(q)
    ELSE <<Head(q)>> \o Released(Tail(q), c)

\* handle_open up to self.lock: the open request and its response.  The
\* server resolves or creates the path before the client asks for the lock.
handle_open(c, p) ==
    /\ pc[c] = "idle"
    /\ \E r \in {server_open(store, p)} : \E msg \in {websocket_comm(r.sent)} :
          /\ store' = r.st
          /\ IF msg.OK
             THEN /\ pc' = [pc EXCEPT ![c] = "open_lock"]
                  /\ local' = [local EXCEPT ![c] = [node |-> msg.node, data |-> <<>>]]
             ELSE UNCHANGED <<pc, local>>
    /\ UNCHANGED <<thr, store0, current_file_node, current_zk_lock, temp_file, queue,
                   acquired, committed>>

\* NFSClient.lock up to the blocking acquire: the tracker test, then
\* current_file_node is set and the Lock object joins the path's contenders.
lock(c) ==
    /\ pc[c] = "open_lock"
    /\ IF current_file_node[c] # NoNode /\ current_zk_lock[c] # NoLock
       THEN \* "A File a already opened!": handle_open returns
            /\ pc' = [pc EXCEPT ![c] = "idle"]
            /\ local' = [local EXCEPT ![c] = NoLocal]
            /\ UNCHANGED <<current_file_node, current_zk_lock, queue>>
       ELSE \* one tracker set: both are reset; then the lock is requested
            /\ current_file_node' = [current_file_node EXCEPT ![c] = local[c].node]
            /\ current_zk_lock' = [current_zk_lock EXCEPT ![c] = NoLock]
            /\ queue' = [queue EXCEPT ![local[c].node.path] = Append(@, c)]
            /\ pc' = [pc EXCEPT ![c] = "open_acquire"]
            /\ local' = [local EXCEPT ![c] = NoLocal]
    /\ UNCHANGED <<store, thr, store0, temp_file, acquired, committed>>

\* NFSClient.zk_lock with no wait: the acquire returns although another
\* contender stands before this one.
zk_lock_no_wait(c) ==
    /\ pc[c] = "open_acquire"
    /\ LET p == current_file_node[c].path
       IN /\ acquired' = acquired \cup {<<c, p>>}
          /\ current_zk_lock' = [current_zk_lock EXCEPT ![c] = p]
          /\ pc' = [pc EXCEPT ![c] = "open_read"]
    /\ UNCHANGED <<store, thr, store0, current_file_node, temp_file, local, queue,
                   committed>>

\* NFSClient.zk_lock: lock.acquire() returns once the coordinator grants the
\* lock; then current_zk_lock is set.
zk_lock(c) ==
    /\ pc[c] = "open_acquire"
    /\ LET p == current_file_node[c].path
       IN /\ Granted(c, p)
          /\ acquired' = acquired \cup {<<c, p>>}
          /\ current_zk_lock' = [current_zk_lock EXCEPT ![c] = p]
          /\ pc' = [pc EXCEPT ![c] = "open_read"]
    /\ UNCHANGED <<store, thr, store0, current_file_node, temp_file, local, queue,
                   committed>>

\* handle_open after the lock: the read request; the bytes are cached in the
\* temp file named by the file's id and "assert bytes_written ==
\* file_node.size" ends the handler either way.  A response without a
\* file_node (get_file raised) ends it at "file_node.file_id" with the lock
\* held and temp_file as it was.
handle_open_read(c) ==
    /\ pc[c] = "open_read"
    /\ \E r \in {server_read(store, current_file_node[c])} :
       \E msg \in {websocket_comm(r.sent)} :
          /\ store' = r.st
          /\ temp_file' = IF msg.node = NoNode THEN temp_file
                          ELSE [temp_file EXCEPT ![c] = [fid |-> msg.node.fid,
                                                         data |-> msg.data]]
    /\ pc' = [pc EXCEPT ![c] = "idle"]
    /\ UNCHANGED <<thr, store0, current_file_node, current_zk_lock, local, queue,
                   acquired, committed>>

\* The offsets of a write command: "write <offset> <data>".
Offsets == 0..MaxLen

\* handle_write, "with open(self.temp_file, 'a') as file: file.write(content)":
\* the temp file is opened for appending, and the offset parsed from the
\* command is used for the printed text only.
AppendWrite(buffer, offset, content) == buffer \o content

\* The content of a write command by client c: one character that names the
\* writer, which the text encoding writes as one byte or as two.
Contents(c) == {<<[by |-> c, width |-> w]>> : w \in {1, 2}}

RECURSIVE encode(_)
\* The bytes the text file object writes for a string.
encode(content) ==
    IF content = <<>> THEN <<>>
    ELSE [i \in 1..Head(content).width |-> Head(content).by] \o encode(Tail(content))

\* handle_write in text mode: the content is written to the temp file, and
\* what file.write returns, the number of characters, is added to
\* current_file_node.size.
handle_write(c, offset, content) ==
    /\ pc[c] = "idle"
    /\ has_file_open(c)
    /\ Len(temp_file[c].data) + Len(encode(content)) <= MaxLen
    /\ temp_file' = [temp_file EXCEPT ![c].data = AppendWrite(@, offset, encode(content))]
    /\ current_file_node' = [current_file_node EXCEPT ![c].size = @ + Len(content)]
    /\ UNCHANGED <<store, thr, store0, pc, current_zk_lock, local, queue, acquired,
                   committed>>

\* handle_close up to the write request: self.unlock() comes first.  With no
\* file open it resets both trackers and close returns; otherwise
\* current_file_node is cleared and the lock released, and then the size
\* assertion on the temp file is made and its bytes are read.
handle_close(c) ==
    /\ pc[c] = "idle"
    /\ IF ~has_file_open(c)
       THEN /\ current_file_node' = [current_file_node EXCEPT ![c] = NoNode]
            /\ current_zk_lock' = [current_zk_lock EXCEPT ![c] = NoLock]
            /\ UNCHANGED <<pc, local, queue, acquired>>
       ELSE /\ current_file_node' = [current_file_node EXCEPT ![c] = NoNode]
            /\ queue' = [queue EXCEPT ![current_zk_lock[c]] = Released(@, c)]
            /\ acquired' = acquired \ {<<c, current_zk_lock[c]>>}
            /\ current_zk_lock' = [current_zk_lock EXCEPT ![c] = NoLock]
            /\ IF current_file_node[c].size = Len(temp_file[c].data)
               THEN /\ pc' = [pc EXCEPT ![c] = "close_write"]
                    /\ local' = [local EXCEPT ![c] = [node |-> current_file_node[c],
                                                      data |-> temp_file[c].data]]
               ELSE UNCHANGED <<pc, local>>
    /\ UNCHANGED <<store, thr, store0, temp_file, committed>>

\* handle_close, the write request: the server saves the bytes.
handle_close_write(c) ==
    /\ pc[c] = "close_write"
    /\ \E r \in {server_write(store, local[c].node, local[c].data)} :
       \E msg \in {websocket_comm(r.sent)} :
          /\ store' = r.st
          /\ IF msg.kind = "json" /\ msg.OK
             THEN /\ pc' = [pc EXCEPT ![c] = "close_close"]
                  /\ UNCHANGED local
             ELSE /\ pc' = [pc EXCEPT ![c] = "idle"]
                  /\ local' = [local EXCEPT ![c] = NoLocal]
    /\ UNCHANGED <<thr, store0, current_file_node, current_zk_lock, temp_file, queue,
                   acquired, committed>>

\* handle_close, the close request: the server replaces the file's entry;
\* on OK the temp file is removed and temp_file cleared.
handle_close_close(c) ==
    /\ pc[c] = "close_close"
    /\ \E r \in {server_close(store, local[c].node)} :
       \E msg \in {websocket_comm(r.sent)} :
          /\ store' = r.st
          /\ IF msg.OK
             THEN /\ temp_file' = [temp_file EXCEPT ![c] = NoTemp]
                  /\ committed' = IF \E k \in 1..Len(local[c].data) : local[c].data[k] = c
                                  THEN committed \cup {<<c, local[c].node.path>>}
                                  ELSE committed
             ELSE UNCHANGED <<temp_file, committed>>
    /\ pc' = [pc EXCEPT ![c] = "idle"]
    /\ local' = [local EXCEPT ![c] = NoLocal]
    /\ UNCHANGED <<thr, store0, current_file_node, current_zk_lock, queue, acquired>>

\* NFSClient.__init__ for every client, and a new server on an empty store.
Init ==
    /\ store = EmptyStore
    /\ thr = <<>>
    /\ store0 = EmptyStore
    /\ pc = [c \in Clients |-> "idle"]
    /\ current_file_node = [c \in Clients |-> NoNode]
    /\ current_zk_lock = [c \in Clients |-> NoLock]
    /\ temp_file = [c \in Clients |-> NoTemp]
    /\ local = [c \in Clients |-> NoLocal]
    /\ queue = [p \in ClientPaths |-> <<>>]
    /\ acquired = {}
    /\ committed = {}

Next ==
    \E c \in Clients :
        \/ \E p \in Opens(c) : handle_open(c, p)
        \/ lock(c)
        \/ zk_lock(c)
        \/ handle_open_read(c)
        \/ \E offset \in Offsets : \E content \in Contents(c) :
              handle_write(c, offset, content)
        \/ handle_close(c)
        \/ handle_close_write(c)
        \/ handle_close_close(c)

Spec == Init /\ [][Next]_vars

\* ------------------------------------- SpecLease: sessions that can crash
\* The clients of Spec, each with a session at the coordinator that is kept
\* alive by the client's process.  thr is the session of each client: "alive",
\* "crashed" (the process is gone and has released nothing; the coordinator
\* has not yet noticed), "expired" (the coordinator ended the session).  The
\* contender nodes of kazoo's Lock are ephemeral: they go with the session.
\* The write command acts on the temp file alone and is left out here.

Alive(c) == thr[c] = "alive"

\* The path's queue without the contenders of c.
Expired(q, c) == SelectSeq(q, LAMBDA x : x # c)

\* The client's process ends abnormally, wherever it stands.
crash(c) ==
    /\ Alive(c)
    /\ thr' = [thr EXCEPT ![c] = "crashed"]
    /\ UNCHANGED <<store, store0, pc, current_file_node, current_zk_lock, temp_file,
                   local, queue, acquired, committed>>

\* A coordinator that ends the session and keeps its contender nodes.
lease_expiry_keeps_nodes(c) ==
    /\ thr[c] = "crashed"
    /\ thr' = [thr EXCEPT ![c] = "expired"]
    /\ UNCHANGED <<store, store0, pc, current_file_node, current_zk_lock, temp_file,
                   local, queue, acquired, committed>>

\* The lease of a crashed client's session runs out: the coordinator ends the
\* session and removes its contender nodes, held or waiting, on every path.
lease_expiry(c) ==
    /\ thr[c] = "crashed"
    /\ thr' = [thr EXCEPT ![c] = "expired"]
    /\ queue' = [p \in ClientPaths |-> Expired(queue[p], c)]
    /\ acquired' = {h \in acquired : h[1] # c}
    /\ UNCHANGED <<store, store0, pc, current_file_node, current_zk_lock, temp_file,
                   local, committed>>

InitLease ==
    /\ store = EmptyStore
    /\ thr = [c \in Clients |-> "alive"]
    /\ store0 = EmptyStore
    /\ pc = [c \in Clients |-> "idle"]
    /\ current_file_node = [c \in Clients |-> NoNode]
    /\ current_zk_lock = [c \in Clients |-> NoLock]
    /\ temp_file = [c \in Clients |-> NoTemp]
    /\ local = [c \in Clients |-> NoLocal]
    /\ queue = [p \in ClientPaths |-> <<>>]
    /\ acquired = {}
    /\ committed = {}

NextLease ==
    \E c \in Clients :
        \/ Alive(c) /\ \E p \in Opens(c) : handle_open(c, p)
        \/ Alive(c) /\ lock(c)
        \/ Alive(c) /\ zk_lock(c)
        \/ Alive(c) /\ handle_open_read(c)
        \/ Alive(c) /\ handle_close(c)
        \/ Alive(c) /\ handle_close_write(c)
        \/ Alive(c) /\ handle_close_close(c)
        \/ crash(c)
        \/ lease_expiry(c)

SpecLease == InitLease /\ [][NextLease]_vars

\* lock.acquire() blocks in the client's process and returns once the lock is
\* granted; the coordinator ends a dead session once its lease has run out.
SpecLeaseLive ==
    /\ SpecLease
    /\ \A c \in Clients : WF_vars(Alive(c) /\ zk_lock(c)) /\ WF_vars(lease_expiry(c))

\* ------------------------------------ SpecTree: one caller, call after call
\* The store as test/test_fs.py and test/fs/ use it: one caller makes whole
\* calls, each finished before the next.  thr is the caller: fr the frame of
\* its last call as it ended, n the number of calls made; store0 is the store
\* before the last call.

PathDE == <<"/", "d", "e">>

PathDD == <<"/", "d", "d">>

DirPaths == {PathD, PathDE, PathDD}

FilePaths == {PathF, PathDF, PathDEF, PathDDF}

PathFF == <<"/", "f", "f">>

\* The paths get_file_node is asked for: those of the files, that of a
\* directory, and one that goes through a file.
ResolvePaths == FilePaths \cup {PathD, PathFF}

\* The new name of a rename.
NewNames == {"g"}

\* The caller before its first call.
NoCall == [Call("load", <<"/">>, <<>>, NoNode) EXCEPT !.op = "", !.pc = "done"]

\* The caller makes another call; a call that creates up to n objects is made
\* while the heap has cells for them.
CanCall == thr.n < MaxCalls

Room(n) == Cardinality(FreeIds(store.heap)) >= n

RECURSIVE Missing(_, _, _, _)
\* The objects a call on path parts creates at most, its traversal standing at
\* directory cur before parts[i]: one for each part from the first that
\* _traverse_directory does not find, and one for the last name when it is no
\* child yet.
Missing(h, cur, parts, i) ==
    IF i >= Len(parts)
    THEN IF parts[Len(parts)] \in DOMAIN h[cur].children THEN 0 ELSE 1
    ELSE IF Traverse(h, cur, parts[i]) = NoRef THEN Len(parts) - i + 1
    ELSE Missing(h, Traverse(h, cur, parts[i]), parts, i + 1)

\* The caller has made a call with result r.
CallerDid(r) ==
    /\ store0' = store
    /\ store' = r.st
    /\ thr' = [fr |-> r.fr, n |-> thr.n + 1]
    /\ UNCHANGED sessionVars

\* The orders in which the children dictionary of the directory at path can
\* yield its children: Python keeps insertion order, the heap does not.
Orders(st, path) ==
    LET d == DirAt(st.heap, st.root, path, 2)
        names == IF d # NoRef /\ st.heap[d].type = "dir"
                 THEN DOMAIN st.heap[d].children ELSE {}
    IN {o \in [1..Cardinality(names) -> names] :
            \A i, j \in 1..Cardinality(names) : o[i] = o[j] => i = j}

FS_open(p) ==
    /\ CanCall /\ Room(Missing(store.heap, store.root, p, 2))
    /\ \E r \in {Invoke(store, "open", p, <<>>, NoNode)} : CallerDid(r)

\* open(p, file_node) on the path of a directory, with a new FileNode of that
\* path: what open finds or creates at p is then replaced through mutate_file.
FS_open_node(p) ==
    /\ CanCall /\ Room(Missing(store.heap, store.root, p, 2) + 1)
    /\ \E r \in {Invoke(store, "open", p, <<>>, NodeVal(FileNode(p[Len(p)], p)))} :
          CallerDid(r)

FS_create_directory(p) ==
    /\ CanCall /\ Room(Missing(store.heap, store.root, p, 2))
    /\ \E r \in {Invoke(store, "create_directory", p, <<>>, NoNode)} : CallerDid(r)

FS_create_file(p) ==
    /\ CanCall /\ Room(Missing(store.heap, store.root, p, 2))
    /\ \E r \in {Invoke(store, "create_file", p, <<"X">>, NoNode)} : CallerDid(r)

FS_save_file(p) ==
    /\ CanCall
    /\ \E r \in {Invoke(store, "save_file", p, <<"Y", "Y">>, NoNode)} : CallerDid(r)

\* mutate with the node get_file_node returned, its size edited.
FS_mutate(p) ==
    /\ CanCall /\ Room(1)
    /\ \E g \in {Invoke(store, "get_file_node", p, <<>>, NoNode)} :
          /\ g.fr.err = ""
          /\ \E r \in {Invoke(store, "mutate", p, <<>>, [g.fr.rnode EXCEPT !.size = 1])} :
                CallerDid(r)

FS_get_file_node(p) ==
    /\ CanCall
    /\ \E r \in {Invoke(store, "get_file_node", p, <<>>, NoNode)} : CallerDid(r)

FS_delete_file(p) ==
    /\ CanCall
    /\ \E r \in {Invoke(store, "delete_file", p, <<>>, NoNode)} : CallerDid(r)

FS_delete_directory(p) ==
    /\ CanCall
    /\ \E r \in {Invoke(store, "delete_directory", p, <<>>, NoNode)} : CallerDid(r)

FS_rename_file(p, new_name) ==
    /\ CanCall
    /\ \E r \in {InvokeCall(store, CallRename("rename_file", p, new_name, <<>>))} :
          CallerDid(r)

FS_rename_directory(p, new_name) ==
    /\ CanCall
    /\ \E order \in Orders(store, p) :
          \E r \in {InvokeCall(store, CallRename("rename_directory", p, new_name, order))} :
             CallerDid(r)

FS_save ==
    /\ CanCall
    /\ \E r \in {Invoke(store, "save", <<"/">>, <<>>, NoNode)} : CallerDid(r)

FS_load ==
    /\ CanCall
    /\ \E r \in {Invoke(store, "load", <<"/">>, <<>>, NoNode)} : CallerDid(r)

Dir_delete_directory(p) ==
    /\ CanCall
    /\ DirAt(store.heap, store.root, SubSeq(p, 1, Len(p) - 1), 2) # NoRef
    /\ \E r \in {Invoke(store, "DirectoryNode.delete_directory", p, <<>>, NoNode)} :
          CallerDid(r)

InitTree ==
    /\ store = EmptyStore
    /\ store0 = EmptyStore
    /\ thr = [fr |-> NoCall, n |-> 0]
    /\ NoSessions

NextTree ==
    \/ \E p \in FilePaths :
          \/ FS_open(p)
          \/ FS_create_file(p)
          \/ FS_save_file(p)
          \/ FS_mutate(p)
          \/ FS_delete_file(p)
          \/ \E new_name \in NewNames : FS_rename_file(p, new_name)
    \/ \E p \in ResolvePaths : FS_get_file_node(p)
    \/ \E p \in DirPaths : FS_open_node(p)
    \/ \E p \in DirPaths :
          \/ FS_create_directory(p)
          \/ FS_delete_directory(p)
          \/ \E new_name \in NewNames : FS_rename_directory(p, new_name)
          \/ Dir_delete_directory(p)
    \/ FS_save
    \/ FS_load

SpecTree == InitTree /\ [][NextTree]_vars

\* ------------------------------------- SpecServer: the server's connections
\* The server process by itself: its main program and the handle_nfs loop of
\* every connection, with the requests a connection can carry.  thr is the
\* server: main the place of the main program, conn each connection's loop
\* (open: at recv; closed: the loop has ended), last the connection of the
\* request the last step handled, sent the messages the server sent for it,
\* saved whether the last step saved the tree.

Conns == {1, 2}

\* The file paths of the requests, and the FileNodes they carry.
ServerPaths == {PathF, PathDF}

RequestNodes ==
    {[NodeVal(FileNode(p[Len(p)], p)) EXCEPT !.size = n] : p \in ServerPaths, n \in {0, 1}}

RequestData == {<<>>, <<"X">>}

\* No request yet.
NoConn == 0

\* handle_nfs leaves its loop by "break" after a read or write whose last
\* message was not an OK=True response; open and close have no break.
Breaks(sent) == ~(sent[Len(sent)].kind = "json" /\ sent[Len(sent)].OK)

\* The connection's loop is at recv and the server is serving.
Serving(k) == thr.main = "start" /\ thr.conn[k] = "open"

\* The server handled a request on connection k: r the store after and the
\* messages sent, brk whether the loop was left.
Served(k, r, brk) ==
    /\ store' = r.st
    /\ thr' = [thr EXCEPT !.sent = r.sent, !.last = k, !.saved = FALSE,
                          !.conn[k] = IF brk THEN "closed" ELSE "open"]
    /\ UNCHANGED <<store0, sessionVars>>

nfs_open(k, p) ==
    /\ Serving(k)
    /\ Room(Missing(store.heap, store.root, p, 2))
    /\ \E r \in {server_open(store, p)} : Served(k, r, FALSE)

nfs_close(k, node) ==
    /\ Serving(k)
    /\ Room(1)
    /\ \E r \in {server_close(store, node)} : Served(k, r, FALSE)

nfs_read(k, node) ==
    /\ Serving(k)
    /\ \E r \in {server_read(store, node)} : Served(k, r, Breaks(r.sent))

nfs_write(k, node, data) ==
    /\ Serving(k)
    /\ \E r \in {server_write(store, node, data)} : Served(k, r, Breaks(r.sent))

\* websockets.serve starts handle_nfs for a new connection.
connect(k) ==
    /\ thr.main = "start"
    /\ thr.conn[k] = "closed"
    /\ thr' = [thr EXCEPT !.conn[k] = "open", !.sent = <<>>, !.last = NoConn,
                          !.saved = FALSE]
    /\ UNCHANGED <<store, store0, sessionVars>>

\* The peer closed the connection: recv raises ConnectionClosedOK, break.
disconnect(k) ==
    /\ Serving(k)
    /\ thr' = [thr EXCEPT !.conn[k] = "closed", !.sent = <<>>, !.last = NoConn,
                          !.saved = FALSE]
    /\ UNCHANGED <<store, store0, sessionVars>>

\* SIGINT: handle_exit saves the tree and ends the process with sys.exit.
handle_exit ==
    /\ thr.main # "exited"
    /\ \E r \in {Invoke(store, "save", <<"/">>, <<>>, NoNode)} : store' = r.st
    /\ thr' = [thr EXCEPT !.main = "exited", !.sent = <<>>, !.last = NoConn, !.saved = TRUE,
                          !.conn = [k \in Conns |-> "closed"]]
    /\ UNCHANGED <<store0, sessionVars>>

\* NFSServer.start returns: "await text_server.wait_closed()" and "await
\* binary_server.wait_closed()" end once the listening servers are closed,
\* which no statement of the program does; the connections go with them.  Only
\* then does __main__ run save_fs_periodically.
wait_closed ==
    /\ thr.main = "start"
    /\ thr' = [thr EXCEPT !.main = "save_fs_periodically", !.sent = <<>>,
                          !.last = NoConn, !.saved = FALSE, !.conn = [k \in Conns |-> "closed"]]
    /\ UNCHANGED <<store, store0, sessionVars>>

\* One round of save_fs_periodically: sleep(1), then self.fs.save.
save_fs_periodically ==
    /\ thr.main = "save_fs_periodically"
    /\ \E r \in {Invoke(store, "save", <<"/">>, <<>>, NoNode)} : store' = r.st
    /\ thr' = [thr EXCEPT !.sent = <<>>, !.last = NoConn, !.saved = TRUE]
    /\ UNCHANGED <<store0, sessionVars>>

\* NFSServer.__init__ with no snapshot file, __main__ at server.start().
InitServer ==
    /\ store = EmptyStore
    /\ store0 = EmptyStore
    /\ thr = [main |-> "start", conn |-> [k \in Conns |-> "closed"],
              sent |-> <<>>, last |-> NoConn, saved |-> FALSE]
    /\ NoSessions

NextServer ==
    \/ \E k \in Conns :
          \/ \E p \in ServerPaths : nfs_open(k, p)
          \/ \E node \in RequestNodes :
                \/ nfs_close(k, node)
                \/ nfs_read(k, node)
                \/ \E data \in RequestData : nfs_write(k, node, data)
          \/ connect(k)
          \/ disconnect(k)
    \/ handle_exit
    \/ wait_closed
    \/ save_fs_periodically

SpecServer == InitServer /\ [][NextServer]_vars

\* The event loop runs every coroutine that can go on: a request that arrived
\* is handled, and a round of save_fs_periodically is made once its loop
\* runs.  Signals, peers and the closing of the listening servers come from
\* outside and need not come.
SpecServerLive ==
    /\ SpecServer
    /\ WF_vars(save_fs_periodically)

\* ----------------------------------- SpecSignal: SIGINT in the server thread
\* The server is one thread: the event loop that runs handle_nfs, and in it the
\* store calls of the requests, is the main thread, and Python runs the
\* handler of SIGINT, handle_exit, in the main thread too, between two
\* instructions of whatever it is executing.  thr is that thread: fr the
\* frame of the store call it is in (NoCall between requests), n the number
\* of requests taken, main the place of the program ("start": serving;
\* "exited"; "blocked": inside handle_exit, waiting for self.lock).

\* The store calls handle_nfs makes for its requests.
ServerCalls ==
    {Call("open", p, <<>>, NoNode) : p \in ServerPaths}
    \cup {Call("mutate", node.path, <<>>, node) : node \in RequestNodes}
    \cup {Call("get_file", p, <<>>, NoNode) : p \in ServerPaths}
    \cup {Call("save_file", p, data, NoNode) : p \in ServerPaths, data \in RequestData}

\* handle_nfs takes a request and enters its store call.
recv(call) ==
    /\ thr.main = "start" /\ thr.fr.pc = "done" /\ thr.n < MaxCalls
    /\ thr' = [thr EXCEPT !.fr = call, !.n = @ + 1]
    /\ UNCHANGED <<store, store0, sessionVars>>

\* The thread runs the next block of the store call it is in.
store_step ==
    /\ thr.main = "start" /\ thr.fr.pc # "done"
    /\ \E r \in {Step(store, thr.fr)} :
          /\ store' = Collect(r.st, {r.fr.cur, r.fr.fref})
          /\ thr' = [thr EXCEPT !.fr = r.fr]
    /\ UNCHANGED <<store0, sessionVars>>

\* SIGINT arrives: handle_exit runs on top of what the thread is doing and
\* calls self.fs.save, which waits for self.lock, a threading.Lock that is
\* not re-entrant.  When the interrupted store call holds the lock, the
\* handler waits for the thread it runs in; otherwise the tree is saved and
\* sys.exit ends the process.
sigint ==
    /\ thr.main = "start"
    /\ IF thr.fr.locked
       THEN /\ thr' = [thr EXCEPT !.main = "blocked"]
            /\ UNCHANGED store
       ELSE /\ \E r \in {Run(store, Call("save", <<"/">>, <<>>, NoNode))} :
                  store' = Collect(r.st, {thr.fr.cur, thr.fr.fref})
            /\ thr' = [thr EXCEPT !.main = "exited"]
    /\ UNCHANGED <<store0, sessionVars>>

InitSignal ==
    /\ store = EmptyStore
    /\ store0 = EmptyStore
    /\ thr = [main |-> "start", fr |-> NoCall, n |-> 0]
    /\ NoSessions

NextSignal ==
    \/ \E call \in ServerCalls : recv(call)
    \/ store_step
    \/ sigint

SpecSignal == InitSignal /\ [][NextSignal]_vars

\* ------------------------------------------- SpecZk: the lock node manager
\* ZooKeeperManager (zk.py): each manager has its own connection to the
\* ensemble and all of them work on the one node ZK_LOCK_NODE.  thr is the
\* ensemble and the managers: znode is the lock node ("absent", "persistent",
\* or the session that owns it as an ephemeral node), zk[s] is self.zk of
\* manager s, call is the last call made with what it returned, n the number
\* of calls made.

Sessions == {"s1", "s2"}

\* self.zk = None
NoZk == "none"

\* KazooClient.ensure_path: the path is created, as a persistent node, if it
\* does not exist.
ensure_path(znode) == IF znode = "absent" THEN "persistent" ELSE znode

\* KazooClient.create(path, ephemeral=True) by session s: NodeExistsError if
\* the node exists.
create(znode, s) ==
    IF znode = "absent" THEN [znode |-> s, err |-> ""]
    ELSE [znode |-> znode, err |-> "NodeExistsError"]

\* KazooClient.delete(path): the node is deleted whoever created it;
\* NoNodeError, a KazooException, if there is none.
delete(znode) ==
    IF znode = "absent" THEN [znode |-> znode, err |-> "NoNodeError"]
    ELSE [znode |-> "absent", err |-> ""]

\* KazooClient.exists(path)
exists(znode) == znode # "absent"

\* The end of a call of manager s.
ZkReturn(s, op, ret, znode) ==
    /\ thr' = [thr EXCEPT !.znode = znode, !.n = @ + 1,
                          !.call = [who |-> s, op |-> op, ret |-> ret]]
    /\ UNCHANGED <<store, store0, pc, current_file_node, current_zk_lock, temp_file,
                   local, queue, acquired, committed>>

\* ZooKeeperManager.start
start(s) ==
    /\ thr.n < MaxCalls
    /\ thr.zk[s] = NoZk
    /\ thr' = [thr EXCEPT !.zk[s] = "started", !.n = @ + 1,
                          !.call = [who |-> s, op |-> "start", ret |-> TRUE]]
    /\ UNCHANGED <<store, store0, pc, current_file_node, current_zk_lock, temp_file,
                   local, queue, acquired, committed>>

\* ZooKeeperManager.acquire_lock: ensure_path(self.lock_node), then
\* create(self.lock_node, ephemeral=True); True if the create went through.
acquire_lock(s) ==
    /\ thr.n < MaxCalls
    /\ IF thr.zk[s] = NoZk
       THEN ZkReturn(s, "acquire_lock", FALSE, thr.znode)
       ELSE \E r \in {create(ensure_path(thr.znode), s)} :
               ZkReturn(s, "acquire_lock", r.err = "", r.znode)

\* ZooKeeperManager.release_lock: delete(self.lock_node); True if the delete
\* went through.
release_lock(s) ==
    /\ thr.n < MaxCalls
    /\ IF thr.zk[s] = NoZk
       THEN ZkReturn(s, "release_lock", FALSE, thr.znode)
       ELSE \E r \in {delete(thr.znode)} :
               ZkReturn(s, "release_lock", r.err = "", r.znode)

\* ZooKeeperManager.is_locked
is_locked(s) ==
    /\ thr.n < MaxCalls
    /\ IF thr.zk[s] = NoZk
       THEN ZkReturn(s, "is_locked", FALSE, thr.znode)
       ELSE ZkReturn(s, "is_locked", exists(thr.znode), thr.znode)

\* ZooKeeperManager.__init__ for every manager; the lock node does not exist.
InitZk ==
    /\ store = EmptyStore
    /\ thr = [znode |-> "absent", zk |-> [s \in Sessions |-> NoZk], n |-> 0,
              call |-> [who |-> "", op |-> "", ret |-> FALSE]]
    /\ store0 = EmptyStore
    /\ pc = <<>>
    /\ current_file_node = <<>>
    /\ current_zk_lock = <<>>
    /\ temp_file = <<>>
    /\ local = <<>>
    /\ queue = <<>>
    /\ acquired = {}
    /\ committed = {}

NextZk ==
    \E s \in Sessions :
        \/ start(s)
        \/ acquire_lock(s)
        \/ release_lock(s)
        \/ is_locked(s)

SpecZk == InitZk /\ [][NextZk]_vars

\* --------------------------------------------- SpecStore: the store's claims

RECURSIVE Abs(_, _)
\* The tree below object id without the heap's cell numbers: what two stores
\* must agree on to hold the same tree.
Abs(h, id) ==
    [type |-> h[id].type, name |-> h[id].name, path |-> h[id].path,
     fid |-> h[id].fid, size |-> h[id].size,
     children |-> [n \in DOMAIN h[id].children |-> Abs(h, h[id].children[n])]]

\* What a caller can see of a store: its tree and its blobs.
View(st) == [tree |-> Abs(st.heap, st.root), blobs |-> st.blobs]

\* What a finished call gave its caller.
Outcome(fr) == [err |-> fr.err, rnode |-> fr.rnode, rdata |-> fr.rdata, rn |-> fr.rn]

\* The call of frame fr made alone on store st.
Alone(st, fr) == Invoke(st, fr.op, fr.path, IF fr.op = "open" THEN <<>> ELSE fr.data, fr.node)

AllDone == \A t \in Threads : thr[t].pc = "done"

\* getFile(path) asked of the store as it is now.
GetFileNow(path) == Invoke(store, "get_file", path, <<>>, NoNode).fr

\* Path p names a child of its parent directory in store st.
IsChild(st, p) ==
    LET dir == TraverseFrom(st.heap, st.root, p, 2, Len(p) - 1)
    IN dir # NoRef /\ p[Len(p)] \in DOMAIN st.heap[dir].children

\* C8: every public FileSystem operation takes effect atomically: when two
\* concurrent calls have both finished, their results and the final store are
\* those of one of the two sequential orders of the calls.
C8_Linearizable ==
    AllDone =>
        \E t1 \in Threads : \E t2 \in Threads \ {t1} :
            LET a == Alone(store0, thr[t1])
                b == Alone(a.st, thr[t2])
            IN /\ Outcome(thr[t1]) = Outcome(a.fr)
               /\ Outcome(thr[t2]) = Outcome(b.fr)
               /\ View(store) = View(b.st)

\* The case of C9: the two threads called create_file on the same path with
\* different content, the path's directory existed and the path was free.
CreateFileRace ==
    /\ \A t \in Threads : thr[t].op = "create_file"
    /\ thr["T1"].path = thr["T2"].path
    /\ thr["T1"].data # thr["T2"].data
    /\ store0 = StoreD

\* C9: of two concurrent create_file calls on one path with different
\* content exactly one succeeds and the other raises FileExistsError, and
\* get_file on the path then returns the bytes of the one that succeeded.
C9_CreateFileOneWinner ==
    (CreateFileRace /\ AllDone) =>
        \E w \in Threads : \E l \in Threads \ {w} :
            /\ thr[w].err = ""
            /\ thr[l].err = "Exists"
            /\ GetFileNow(thr[w].path).err = ""
            /\ GetFileNow(thr[w].path).rdata = thr[w].data

\* C9's case reached: both calls finished, T2 the winner with content "B".
C9_Witness ==
    /\ CreateFileRace /\ AllDone
    /\ thr["T2"].err = "" /\ thr["T1"].err = "Exists"
    /\ thr["T2"].data = <<"B">>
    /\ GetFileNow(PathDF).rdata = <<"B">>

\* The case of C10: the two threads called delete_file on the same path,
\* which named a file with a blob.
DeleteFileRace ==
    /\ \A t \in Threads : thr[t].op = "delete_file"
    /\ thr["T1"].path = thr["T2"].path
    /\ store0 = StoreDF

\* C10: of two concurrent delete_file calls on one existing path exactly one
\* succeeds and the other raises FileNotFoundError; afterwards get_file on the
\* path raises FileNotFoundError and the file is no child of its directory.
C10_DeleteFileOneWinner ==
    (DeleteFileRace /\ AllDone) =>
        /\ \E w \in Threads : \E l \in Threads \ {w} :
              thr[w].err = "" /\ thr[l].err = "NotFound"
        /\ GetFileNow(thr["T1"].path).err = "NotFound"
        /\ ~IsChild(store, thr["T1"].path)

\* C10's case reached: both calls finished, T1 the one that deleted the file.
C10_Witness ==
    /\ DeleteFileRace /\ AllDone
    /\ thr["T1"].err = "" /\ thr["T2"].err = "NotFound"
    /\ IsChild(store0, PathDF) /\ ~IsChild(store, PathDF)

\* ---------------------------------------------- Spec: the sessions' claims

\* The paths on which the coordinator has c as the holder of the lock.
Holds(c) == {p \in ClientPaths : <<c, p>> \in acquired}

\* C1: at any time at most one client session holds the granted lock of a
\* path, at the coordinator and by the clients' own trackers; a session whose
\* acquire has not returned holds none while another session holds it.
C1_MutualExclusion ==
    \A p \in ClientPaths :
        /\ Cardinality({c \in Clients : <<c, p>> \in acquired}) <= 1
        /\ Cardinality({c \in Clients : current_zk_lock[c] = p}) <= 1

\* C1's case reached: A holds the lock of /f and B's acquire on /f has not
\* returned.
C1_Witness ==
    /\ acquired = {<<"A", PathF>>}
    /\ current_zk_lock["A"] = PathF
    /\ queue[PathF] = <<"A", "B">>
    /\ pc["B"] = "open_acquire"
    /\ current_zk_lock["B"] = NoLock

\* C2: no lost updates: the stored content of a path contains the write of
\* every session that wrote to the path and closed it with success.
C2_NoLostUpdates ==
    \A e \in committed :
        /\ GetFileNow(e[2]).err = ""
        /\ \E k \in 1..Len(GetFileNow(e[2]).rdata) : GetFileNow(e[2]).rdata[k] = e[1]

\* C3: in close the lock is released only after the server has acknowledged
\* the commit: a client whose write or close request of the commit is still
\* to be sent or answered holds the lock of the path.
C3_ReleaseAfterCommit ==
    \A c \in Clients :
        pc[c] \in {"close_write", "close_close"} => <<c, local[c].node.path>> \in acquired

\* A step in which a close of c's open file ends before the commit is
\* complete: the size check fails, or the write or the close request fails.
CloseFailed(c) ==
    \/ /\ pc[c] = "idle" /\ has_file_open(c)
       /\ current_file_node'[c] = NoNode /\ pc'[c] = "idle"
    \/ pc[c] = "close_write" /\ pc'[c] = "idle"
    \/ pc[c] = "close_close" /\ pc'[c] = "idle" /\ temp_file'[c] # NoTemp

\* C4: when a step of the commit fails during close, the client afterwards
\* still holds the lock of the path and still has its open-file state and its
\* scratch buffer.
C4_FailedCloseKeepsSession ==
    [][\A c \in Clients :
          CloseFailed(c) =>
              /\ current_file_node'[c] # NoNode
              /\ temp_file'[c] # NoTemp
              /\ current_zk_lock'[c] # NoLock
              /\ <<c, current_zk_lock'[c]>> \in acquired']_vars

\* C5: the server's open has run for a session, which then has the file's
\* metadata, only when the session has been granted the lock of the path: a
\* session that has not asked for the lock yet or still waits for it has no
\* metadata of the file.
C5_OpenAfterGrant ==
    \A c \in Clients :
        /\ pc[c] = "open_lock" => <<c, local[c].node.path>> \in acquired
        /\ pc[c] = "open_acquire" => current_file_node[c] = NoNode

\* C6: no orphaned locks: whenever a client's tracker says that no lock is
\* held, the coordinator has no lock held by the client.
C6_NoOrphanedLocks ==
    \A c \in Clients : current_zk_lock[c] = NoLock => Holds(c) = {}

\* C7: single open: a client session holds at most one coordinator lock.
C7_SingleOpen ==
    \A c \in Clients : Cardinality(Holds(c)) <= 1

\* ------------------------------------------------ SpecTree: the tree's claims

\* The files of the tree of store st.
Files(st) == {i \in Reach(st.heap, {st.root}) : st.heap[i].type = "file"}

\* The last call of the caller was op on path p and returned.
Returned(op, p) == thr.fr.op = op /\ thr.fr.path = p /\ thr.fr.err = ""

\* C11: after any sequence of tree operations (create_file, open, rename_file,
\* rename_directory, mutate, save, load; FileNode.move has no caller) every
\* file of the tree has as its id the hash of its current name and its current
\* virtual path.
C11_IdentityInvariant ==
    \A i \in Files(store) :
        store.heap[i].fid = generate_file_id(store.heap[i].name, store.heap[i].path)

\* get_file_node(path) on the store as it is now: the frame the call ends with.
ResolveNow(path) == Invoke(store, "get_file_node", path, <<>>, NoNode).fr

\* C12: for every absolute path P, of any depth and also with a segment named
\* as its parent, once create_file(P) has returned, get_file_node(P) returns
\* the file whose id is the hash of P's last name and P.
C12_CreateThenResolve ==
    \A p \in FilePaths :
        Returned("create_file", p)
            => /\ ResolveNow(p).err = ""
               /\ ResolveNow(p).rnode.fid = generate_file_id(p[Len(p)], p)

\* The last call of the caller was op on path p.
Called(op, p) == thr.fr.op = op /\ thr.fr.path = p

\* C13: create_file or create_directory on a name that already is a child of
\* the parent directory raises FileExistsError, and the tree and the blobs
\* after the call are those before it.
C13_CreateExistingFails ==
    \A p \in FilePaths \cup DirPaths :
        /\ Called("create_file", p) \/ Called("create_directory", p)
        /\ IsChild(store0, p)
        => /\ thr.fr.err = "Exists"
           /\ View(store) = View(store0)

\* create_directory('/d') was called on a store where /d has children.
C13_Witness ==
    /\ Called("create_directory", PathD)
    /\ IsChild(store0, PathDF)
    /\ thr.fr.err = "Exists"

\* get_file_node(path) asked of the store before the last call.
ResolveBefore(path) == Invoke(store0, "get_file_node", path, <<>>, NoNode).fr

\* C14: once open(P) has returned, every proper prefix of P is a directory of
\* the tree and P resolves to the file at P; when P did not resolve before, the
\* file has size 0; when it did, open returned that entry and changed nothing.
C14_OpenCreatesPath ==
    \A p \in FilePaths :
        Returned("open", p)
            => /\ \A k \in 2..(Len(p) - 1) :
                     /\ DirAt(store.heap, store.root, SubSeq(p, 1, k), 2) # NoRef
                     /\ store.heap[DirAt(store.heap, store.root, SubSeq(p, 1, k), 2)].type
                            = "dir"
               /\ ResolveNow(p).err = ""
               /\ ResolveNow(p).rnode.path = p
               /\ ResolveNow(p).rnode = thr.fr.rnode
               /\ ResolveBefore(p).err # "" => thr.fr.rnode.size = 0
               /\ ResolveBefore(p).err = ""
                     => /\ thr.fr.rnode = ResolveBefore(p).rnode
                        /\ View(store) = View(store0)

\* C15: once load has returned, the tree is the tree the snapshot was saved
\* from: the same directories and files with the same name, id and size (the
\* times created_at and modified_at are not part of the model).
C15_SnapshotRoundTrip ==
    Returned("load", <<"/">>)
        => Abs(store.heap, store.root) = Abs(store.snapshot.heap, store.snapshot.root)

\* The files at any depth below the object at path p of store st.
FilesBelow(st, p) ==
    LET d == DirAt(st.heap, st.root, p, 2)
    IN IF d = NoRef THEN {} ELSE {i \in Reach(st.heap, {d}) : st.heap[i].type = "file"}

\* get_file(path) asked of store st: the frame the call ends with.
GetFile(st, path) == Invoke(st, "get_file", path, <<>>, NoNode).fr

\* C16: rename_directory on a directory that holds files, directly or below
\* subdirectories, returns; every file below it then has the path with the new
\* name in the directory's place and as id the hash of its name and that path,
\* an id other than its old one; and get_file on the new path returns the
\* bytes the file had.  (The pairs of old and new id are dropped by
\* FileSystem.rename_directory and are no part of its result.)
C16_RenameDirectoryRewrites ==
    \A p \in DirPaths :
        /\ Called("rename_directory", p)
        /\ FilesBelow(store0, p) # {}
        => /\ thr.fr.err = ""
           /\ \A i \in FilesBelow(store0, p) :
                 LET old == store0.heap[i]
                     new_path == [old.path EXCEPT ![Len(p)] = thr.fr.new_name]
                 IN /\ store.heap[i].path = new_path
                    /\ store.heap[i].fid = generate_file_id(old.name, new_path)
                    /\ store.heap[i].fid # old.fid
                    /\ old.fid \in DOMAIN store0.blobs
                          => /\ GetFile(store, new_path).err = ""
                             /\ GetFile(store, new_path).rdata = store0.blobs[old.fid]

\* C17: rename_file on a path that resolves to a file, at any depth, returns;
\* afterwards the old path does not resolve, the path with the new name does,
\* and get_file on it returns the bytes get_file gave on the old path.
C17_RenameFile ==
    \A p \in FilePaths :
        /\ Called("rename_file", p)
        /\ ResolveBefore(p).err = ""
        => LET new_path == [p EXCEPT ![Len(p)] = thr.fr.new_name]
           IN /\ thr.fr.err = ""
              /\ ResolveNow(p).err # ""
              /\ ResolveNow(new_path).err = ""
              /\ GetFile(store0, p).err = ""
                    => /\ GetFile(store, new_path).err = ""
                       /\ GetFile(store, new_path).rdata = GetFile(store0, p).rdata

\* The directory at path p of store st has at least one child.
NonEmptyDir(st, p) ==
    LET d == DirAt(st.heap, st.root, p, 2)
    IN d # NoRef /\ st.heap[d].type = "dir" /\ DOMAIN st.heap[d].children # {}

\* C18: delete_directory on a directory with at least one child raises
\* EnvironmentError (not empty), and the tree and the blobs after the call are
\* those before it.
C18_DeleteNonEmptyFails ==
    \A p \in DirPaths :
        Called("delete_directory", p) /\ NonEmptyDir(store0, p)
            => /\ thr.fr.err = "NotEmpty"
               /\ View(store) = View(store0)

\* delete_directory('/d') was refused while /d held children.
C18_Witness ==
    /\ Called("delete_directory", PathD)
    /\ NonEmptyDir(store0, PathD)
    /\ thr.fr.err = "NotEmpty"

\* The elements of a sequence.
Range(seq) == {seq[k] : k \in DOMAIN seq}

\* C19: DirectoryNode.delete_directory(name, recursive=True) on a directory
\* with children returns a list that holds the id of every file below the
\* directory, at every depth, holds nothing else, and holds no id twice.
C19_RecursiveDeleteIds ==
    \A p \in DirPaths :
        Called("DirectoryNode.delete_directory", p) /\ NonEmptyDir(store0, p)
            => /\ thr.fr.err = ""
               /\ Range(thr.fr.rids) = {store0.heap[i].fid : i \in FilesBelow(store0, p)}
               /\ \A j, k \in DOMAIN thr.fr.rids :
                     thr.fr.rids[j] = thr.fr.rids[k] => j = k

\* C20: once DirectoryNode.delete_directory(name, recursive=True) on a
\* directory with children has returned, the directory is no longer in the
\* tree, and the blob folder holds no blob of a returned id.
C20_RecursiveDeleteRemoves ==
    \A p \in DirPaths :
        /\ Called("DirectoryNode.delete_directory", p)
        /\ NonEmptyDir(store0, p)
        /\ thr.fr.err = ""
        => /\ DirAt(store.heap, store.root, p, 2) = NoRef
           /\ \A k \in DOMAIN thr.fr.rids : thr.fr.rids[k] \notin DOMAIN store.blobs

\* ----------------------------------------------- Spec: the commit's claims

\* C21: a close commits the metadata first and the content second: whenever a
\* session stands between the two requests of its close, the first done and
\* the second to come, the entry the server has at the session's path is the
\* session's FileNode, with the bytes perhaps still the old ones; the server
\* never has the new bytes under the old metadata.
C21_MetadataBeforeContent ==
    \A c \in Clients :
        pc[c] = "close_close"
            => /\ ResolveNow(local[c].node.path).err = ""
               /\ ResolveNow(local[c].node.path).rnode = local[c].node

\* ------------------------------------------- SpecServer: the server's claims

\* The store call of the last request failed: the first message the server
\* sent for it is an OK=False response.
StoreCallFailed ==
    thr.sent # <<>> /\ Head(thr.sent).kind = "json" /\ ~Head(thr.sent).OK

\* C22: when the store call of an open, close, read or write request failed,
\* the server answered the request with OK=False and with nothing that says
\* OK=True, and the connection's loop is still at recv for the next request.
C22_FailureKeepsConnection ==
    \A k \in Conns :
        thr.last = k /\ StoreCallFailed
            => /\ thr.conn[k] = "open"
               /\ \A i \in DOMAIN thr.sent : ~thr.sent[i].OK

\* C23: while the server is serving, a save of the snapshot always happens
\* again: from every state in which it serves, a step that saves the tree
\* follows, unless the server stops serving.
C23_PeriodicSave ==
    (thr.main = "start") ~> (thr.saved \/ thr.main # "start")

\* ------------------------------------------- Spec: the scratch buffer's claim

\* The larger of two numbers.
Max(a, b) == IF a >= b THEN a ELSE b

\* C24: a write of data at an offset overwrites the scratch buffer from that
\* offset and extends it when needed: the bytes before the offset are
\* unchanged, the bytes from the offset on are the data, and the new length is
\* the larger of the old length and offset + len(data).
C24_WriteAtOffset ==
    [][\A c \in Clients : \A offset \in Offsets : \A content \in Contents(c) :
          handle_write(c, offset, content)
              => LET old  == temp_file[c].data
                     new  == temp_file'[c].data
                     data == encode(content)
                 IN /\ Len(new) = Max(Len(old), offset + Len(data))
                    /\ \A i \in 1..Len(old) : i <= offset => new[i] = old[i]
                    /\ \A i \in 1..Len(data) :
                          offset + i <= Len(new) /\ new[offset + i] = data[i]]_vars

\* ------------------------------------------------ Spec: the lock's claims

Waits(d, p) ==
    Alive(d) /\ pc[d] = "open_acquire" /\ current_file_node[d].path = p

\* C26: when the client that holds a path's lock has crashed without
\* releasing it, the lock is eventually released (the lease expires), and a
\* client that waits for that lock is eventually granted it, unless it
\* crashes itself.
C26_LeaseExpiry ==
    \A c \in Clients : \A p \in ClientPaths :
        /\ (thr[c] = "crashed" /\ <<c, p>> \in acquired) ~> (<<c, p>> \notin acquired)
        /\ \A d \in Clients \ {c} :
              (thr[c] = "crashed" /\ <<c, p>> \in acquired /\ Waits(d, p))
                  ~> (<<d, p>> \in acquired \/ ~Alive(d))

\* A crashed holding the lock of /f, and B waits for it behind A.
C26_Witness ==
    /\ thr["A"] = "crashed"
    /\ <<"A", PathF>> \in acquired
    /\ queue[PathF] = <<"A", "B">>
    /\ Waits("B", PathF)

\* ------------------------------------------ SpecZk: the lock node's claim

\* The session that holds the lock: the owner of the ephemeral lock node.
Holder == IF thr.znode \in Sessions THEN thr.znode ELSE ""

\* C27: a release by a session that does not hold the lock fails and leaves
\* the lock as it is: when the lock node exists and manager s is not its
\* holder, release_lock of s returns False and the node is still there.
C27_ReleaseByNonHolderFails ==
    [][\A s \in Sessions :
          (release_lock(s) /\ exists(thr.znode) /\ Holder # s)
              => (~thr'.call.ret /\ thr'.znode = thr.znode)]_vars

\* ------------------------------------------ SpecStore: the blob's claim

\* C28: a blob removal that fails does not end the deletion of a file: in
\* delete_file and in delete, the step that removes the blob, failed or not,
\* is followed by the removal of the file's entry from the tree.
C28_BlobFailureNotFatal ==
    [][\A t \in Threads :
          (T_delete_remove(t) \/ T_delete_file_remove(t))
              => thr'[t].pc \in {"delete_tree", "delete_file_tree"}]_vars

\* ------------------------------------------- SpecTree: the resolver's claims

\* The object at path p of store st: every part but the last names a
\* directory that holds the next part.  NoRef if there is none.
Located(st, p) == DirAt(st.heap, st.root, p, 2)

\* C29: get_file_node(path) returns an entry only when every segment of the
\* path matches the tree, and then the file located at that path: it raises
\* when a segment before the last is missing or is a file, or when the last
\* names no file, and never returns the file of another path.
C29_ResolveMatchesPath ==
    \A p \in ResolvePaths :
        Returned("get_file_node", p)
            => /\ Located(store, p) # NoRef
               /\ store.heap[Located(store, p)].type = "file"
               /\ thr.fr.rnode = NodeVal(store.heap[Located(store, p)])

\* C30: mutate_file on a name that names a directory raises FileNotFoundError
\* and leaves the tree as it was, so that a directory is never replaced by a
\* file: open(p, file_node), which hands p's last name to mutate_file, fails
\* so when p is a directory.
C30_MutateFileKeepsDirectory ==
    \A p \in DirPaths :
        (/\ Called("open", p) /\ thr.fr.node # NoNode
         /\ Located(store0, p) # NoRef
         /\ store0.heap[Located(store0, p)].type = "dir")
            => thr.fr.err = "NotFound" /\ View(store) = View(store0)

\* ------------------------------------- SpecStore: the claim of two opens

\* C31: two concurrent calls of open on the same path, of which neither the
\* file nor the directories above it exist yet, both return, and return the
\* same file entry; neither raises FileExistsError, and one file and one
\* directory per prefix are created.
C31_ConcurrentOpen ==
    \A p \in {PathDF, PathDEF} :
        (/\ store0 = EmptyStore
         /\ \A t \in Threads :
               /\ thr[t].op = "open" /\ thr[t].path = p /\ thr[t].node = NoNode
               /\ thr[t].pc = "done")
            => /\ \A t \in Threads : thr[t].err = ""
               /\ thr["T1"].rnode = thr["T2"].rnode
               /\ View(store) = View(Invoke(EmptyStore, "open", p, <<>>, NoNode).st)

\* ------------------------------------------ SpecSignal: the signal's claim

\* C32: wherever the server thread stands when SIGINT arrives, also inside a
\* store call that holds the store's lock, handle_exit saves the tree and the
\* process exits: the handler is never left waiting for the lock.
C32_ExitNeverBlocks == thr.main # "blocked"

\* ---------------------------------- SpecServer: the claim of one response

\* C33: the server sends exactly one response for every open and every close
\* request, and when the store call of the request failed that response says
\* OK=False: no OK=True response follows it.
C33_OneResponse ==
    [][\A k \in Conns :
          ((\E p \in ServerPaths : nfs_open(k, p))
              \/ (\E node \in RequestNodes : nfs_close(k, node)))
              => /\ Len(thr'.sent) = 1
                 /\ ~Head(thr'.sent).OK => \A i \in DOMAIN thr'.sent : ~thr'.sent[i].OK]_vars

\* ------------------------------------------------ Spec: the sizes' claims

\* C34: when handle_open has fetched the content, the size of the FileNode the
\* client holds is the number of bytes it fetched, so that "assert
\* bytes_written == file_node.size" passes, whatever other sessions committed
\* to the path while this one waited for the lock.
C34_OpenSizeMatches ==
    [][\A c \in Clients :
          (handle_open_read(c) /\ temp_file'[c] # temp_file[c])
              => current_file_node'[c].size = Len(temp_file'[c].data)]_vars

\* C35: the write commands keep the size of the client's FileNode equal to the
\* number of bytes in the temp file: a write made while the two agree leaves
\* them in agreement, so that the size test of handle_close and the server's
\* test of the bytes written pass.
C35_WriteKeepsSize ==
    [][\A c \in Clients : \A offset \in Offsets : \A content \in Contents(c) :
          (/\ handle_write(c, offset, content)
           /\ current_file_node[c].size = Len(temp_file[c].data))
              => current_file_node'[c].size = Len(temp_file'[c].data)]_vars

\* ------------------------------------------- SpecTree: the positions' claim

\* The names the calls of SpecTree use.
Names == {"d", "e", "f", "g"}

\* The chains of child keys below the root, as paths.
KeyPaths ==
    {<<"/">> \o ks : ks \in UNION {[1..n -> Names] : n \in 1..Len(PathDEF) - 1}}

\* C36: every file that is reached from the root through the chain of child
\* keys P has P's last key as its name and P as its file_path; and a
\* create_file(P) or create_directory(P) that returns found P's parent in the
\* tree and put the new entry there, at P.
C36_PositionInvariant ==
    /\ \A p \in KeyPaths :
          (Located(store, p) # NoRef /\ store.heap[Located(store, p)].type = "file")
              => /\ store.heap[Located(store, p)].name = p[Len(p)]
                 /\ store.heap[Located(store, p)].path = p
    /\ \A p \in FilePaths \cup DirPaths :
          (Returned("create_file", p) \/ Returned("create_directory", p))
              => /\ Located(store0, SubSeq(p, 1, Len(p) - 1)) # NoRef
                 /\ Located(store, p) # NoRef

\* ----------------------------------------------- SpecTree: the blobs' claim

\* C37: after any sequence of store calls every file of the tree has a blob
\* under the id it has now, and get_file returns for every path that
\* get_file_node resolves.
C37_BlobConsistency ==
    /\ \A i \in Files(store) : store.heap[i].fid \in DOMAIN store.blobs
    /\ \A p \in ResolvePaths : ResolveNow(p).err = "" => GetFile(store, p).err = ""

\* --------------------------------------------- SpecTree: the renames' claim

\* The entries, files and directories, of the tree of store st.
Entries(st) == Reach(st.heap, {st.root})

\* C38: a rename_file or rename_directory destroys no other entry: also when
\* the new name already is a child of the same directory, the tree has as
\* many entries after the call as before it.
C38_RenameKeepsEntries ==
    \A p \in FilePaths \cup DirPaths :
        (Called("rename_file", p) \/ Called("rename_directory", p))
            => Cardinality(Entries(store)) = Cardinality(Entries(store0))

\* ---------------------------------------- SpecZk: the claim of acquire_lock

\* C39: acquire_lock of a started manager returns True, with the lock node
\* then an ephemeral node of the caller's session, whenever no session holds
\* the lock, and returns False only when another session holds it.
C39_AcquireWhenFree ==
    [][\A s \in Sessions :
          (acquire_lock(s) /\ thr.zk[s] # NoZk)
              => /\ Holder = "" => (thr'.call.ret /\ thr'.znode = s)
                 /\ ~thr'.call.ret => Holder \notin {"", s}]_vars


====
